---- MODULE Spec2Model ----
(***************************************************************************)
(* A model of the poll() chat room server (chatserver_poll.cpp) together   *)
(* with the client handler it drives (defaultlogic.cpp) and the buffer     *)
(* streams it encodes with (util.cpp).                                     *)
(*                                                                         *)
(* Bytes are the integers 0..255.  A std::string is a sequence of          *)
(* characters; the bytes a client sends are modelled one for one, the      *)
(* fixed literals the server prints ("Welcome to the chat room, ", the     *)
(* ANSI colour escapes around them, ...) are each one character with a     *)
(* code above 255, so that a message keeps its structure                   *)
(* (literal, name, literal) and its encoding keeps its layout              *)
(* (id, length, characters) while staying short.                           *)
(***************************************************************************)
EXTENDS Integers, Sequences, FiniteSets, TLC

(***************************************************************************)
(* Bounds of the model.                                                    *)
(***************************************************************************)
\* connections the clients open in one run
MaxAccept == 2
\* frames all clients together send in one run
MaxFrames == 3
\* clients that close their connection, in one run
MaxCloses == 2
\* free bytes of the kernel send buffer of a client that stops reading
SockBuf == 5
\* the retries of one write() are counted up to MaxSpin, then from 0 again
MaxSpin == 1

(***************************************************************************)
(* Program constants.                                                      *)
(***************************************************************************)
\* sizeof(int), the window of a length field
IntSize == 4
\* the name length the handler refuses from
NameLimit == 64

(***************************************************************************)
(* Sequences.                                                              *)
(***************************************************************************)
Min(a, b) == IF a < b THEN a ELSE b

\* s[from..to], 1-based, empty when from > to
Slice(s, from, to) == SubSeq(s, from, to)

\* src copied over dst from 0-based offset off (memcpy / read into a buffer)
Overwrite(dst, off, src) ==
    [k \in 1..Len(dst) |->
        IF k > off /\ k <= off + Len(src) THEN src[k - off] ELSE dst[k]]

RECURSIVE Flatten(_)
Flatten(ss) == IF ss = <<>> THEN <<>> ELSE Head(ss) \o Flatten(Tail(ss))

\* 0-based position of the first x in s, or -1 (std::string::find, npos)
RECURSIVE FindFrom(_, _, _)
FindFrom(s, x, k) ==
    IF k > Len(s) THEN -1
    ELSE IF s[k] = x THEN k - 1
    ELSE FindFrom(s, x, k + 1)

Find(s, x) == FindFrom(s, x, 1)

(***************************************************************************)
(* util.cpp: integers and strings in a buffer.                             *)
(***************************************************************************)
\* the four bytes of an int in memory (little endian, two's complement);
\* CsDtOutputStream::write(const int&) copies them as they are
IntBytes(n) ==
    <<n % 256, (n \div 256) % 256, (n \div 65536) % 256, (n \div 16777216) % 256>>

\* the int four bytes of memory hold; CsDtInputStream::read(int&)
BytesInt(b) ==
    b[1] + 256 * b[2] + 65536 * b[3]
    + 16777216 * (IF b[4] >= 128 THEN b[4] - 256 ELSE b[4])

\* CsDtWriteBuffer::write0: append the bytes
WriteBufferWrite0(buffer, bytes) == buffer \o bytes

\* CsDtOutputStream::write(const std::string&) with maxLength = 0:
\* the length, then the characters
WriteString(buffer, str) ==
    WriteBufferWrite0(WriteBufferWrite0(buffer, IntBytes(Len(str))), str)

\* CsDtOutputStream::write(const int&)
WriteInt(buffer, n) == WriteBufferWrite0(buffer, IntBytes(n))

\* std::string(const char*) of a buffer that holds a NUL: the bytes before it
CStr(bytes) ==
    LET z == Find(bytes, 0) IN IF z < 0 THEN bytes ELSE Slice(bytes, 1, z)

\* CsDtReadBuffer::read0 then CsDtInputStream::read(int&) on the bytes left of
\* a packet: [ok, value, rest]
ReadInt(bytes) ==
    IF Len(bytes) < IntSize
    THEN [ok |-> FALSE, value |-> 0, rest |-> bytes]
    ELSE [ok |-> TRUE, value |-> BytesInt(Slice(bytes, 1, IntSize)),
          rest |-> Slice(bytes, IntSize + 1, Len(bytes))]

\* CsDtInputStream::read(std::string&) with maxLength = 0 on the bytes left of
\* a packet: the length, then that many bytes, cut at the first NUL
ReadString(bytes) ==
    LET len == ReadInt(bytes)
    IN  IF ~len.ok \/ len.value < 0 \/ Len(len.rest) < len.value
        THEN [ok |-> FALSE, value |-> <<>>, rest |-> bytes]
        ELSE [ok |-> TRUE, value |-> CStr(Slice(len.rest, 1, len.value)),
              rest |-> Slice(len.rest, len.value + 1, Len(len.rest))]

(***************************************************************************)
(* defaultlogic.cpp: the literals of the messages, one character each.     *)
(***************************************************************************)
TxtWelcome == 301
TxtDot == 302
TxtNewUser == 303
TxtJoined == 304
TxtUser == 305
TxtLeft == 306
TxtSorry == 307
TxtAlready == 308
TxtOpen == 309
TxtClose == 310
TxtUnknown == 311
TxtIssueHelp == 312
TxtHelpList == 313
TxtThereIs == 314
TxtThereAre == 315
TxtUserOnline == 316
TxtUsersOnline == 317
TxtComma == 318
\* server -> ipPort() of connection cid: the characters "(ip:port)"
TxtIpPort(cid) == 500 + cid

Space == 32
CmdOnline == <<111, 110, 108, 105, 110, 101>>
CmdHelp == <<104, 101, 108, 112>>

\* operator<< of a small size_t: its decimal digit
Digit(n) == 48 + n

WelcomeText(name) == <<TxtWelcome>> \o name \o <<TxtDot>>
JoinText(name, cid) == <<TxtNewUser>> \o name \o <<TxtIpPort(cid), TxtJoined>>
LeaveText(name, cid) == <<TxtUser>> \o name \o <<TxtIpPort(cid), TxtLeft>>
SorryTextWelcomes(name) == <<TxtWelcome>> \o name \o <<TxtDot>>
SorryText(name) == <<TxtSorry>> \o name \o <<TxtAlready>>
ChatText(name, chat) == <<TxtOpen>> \o name \o <<TxtClose>> \o chat
UnknownText(tok) == <<TxtUnknown>> \o tok \o <<TxtIssueHelp>>
HelpText == <<TxtHelpList>>

\* std::string's operator<, the order of std::set<std::string>
RECURSIVE LexLess(_, _)
LexLess(a, b) ==
    IF b = <<>> THEN FALSE
    ELSE IF a = <<>> THEN TRUE
    ELSE IF Head(a) # Head(b) THEN Head(a) < Head(b)
    ELSE LexLess(Tail(a), Tail(b))

\* the elements of a std::set<std::string> in iteration order
RECURSIVE SortedNames(_)
SortedNames(S) ==
    IF S = {} THEN <<>>
    ELSE LET m == CHOOSE x \in S : \A y \in S \ {x} : LexLess(x, y)
         IN  <<m>> \o SortedNames(S \ {m})

RECURSIVE JoinNames(_, _)
JoinNames(names, first) ==
    IF names = <<>> THEN <<>>
    ELSE (IF first THEN <<>> ELSE <<TxtComma>>) \o Head(names)
         \o JoinNames(Tail(names), FALSE)

\* a listing that gives the number of the users without their names
OnlineTextCountOnly(users) ==
    LET n == Cardinality(users)
    IN  <<IF n > 1 THEN TxtThereAre ELSE TxtThereIs, Digit(n),
          IF n > 1 THEN TxtUsersOnline ELSE TxtUserOnline, TxtDot>>

\* processCommand, "online": the listing of the users
OnlineText(users) ==
    LET n == Cardinality(users)
    IN  <<IF n > 1 THEN TxtThereAre ELSE TxtThereIs, Digit(n),
          IF n > 1 THEN TxtUsersOnline ELSE TxtUserOnline>>
        \o JoinNames(SortedNames(users), TRUE) \o <<TxtDot>>

(***************************************************************************)
(* defaultlogic.cpp, processPacket: the split of a command at spaces.      *)
(***************************************************************************)
\* command.substr(position + 1, command.length())
AfterSpace(command, position) == Slice(command, position + 2, Len(command))

\* TRUE when the while loop never ends: a space is found at position 0, the
\* body changes nothing and the same space is found again
RECURSIVE SplitHangs(_)
SplitHangs(command) ==
    LET position == Find(command, Space)
    IN  IF position < 0 THEN FALSE
        ELSE IF position = 0 THEN TRUE
        ELSE SplitHangs(AfterSpace(command, position))

\* the arguments when the loop ends
RECURSIVE SplitArgs(_)
SplitArgs(command) ==
    LET position == Find(command, Space)
    IN  IF position < 0
        THEN (IF Len(command) > 0 THEN <<command>> ELSE <<>>)
        ELSE <<Slice(command, 1, position)>>
             \o SplitArgs(AfterSpace(command, position))

\* processCommand: the text sent back to the client
CommandReply(args, users) ==
    IF args[1] = CmdOnline THEN OnlineText(users)
    ELSE IF args[1] = CmdHelp THEN HelpText
    ELSE UnknownText(args[1])

(***************************************************************************)
(* The state.                                                              *)
(***************************************************************************)
VARIABLES
    \* main(): the taken names, the registry (fd -> control block), the pollfd
    \* array, and the locals of the server loop
    clientNameSet, clientServices, polls, numAvailables, killedService, idx,
    \* where the server loop stands: "poll", "loop", "send", "xfer", "sweep",
    \* "erase"; "hung" in a loop that cannot end, "crashed" after an uncaught
    \* exception
    pc,
    \* the send() calls the running handler still has to make, in order, and
    \* where the loop goes on after the last of them
    pending, ret,
    \* the retries of the nextSend in progress after a would-block result
    spins,
    \* the kernel: the open sockets (fd -> connection, bytes in flight to the
    \* server, state of the peer, room in the send buffer) and the connections
    \* waiting in the listen queue
    socks, backlog,
    \* what the environment may still do in this run
    budget,
    \* history: connections accepted and send() calls made so far; per
    \* connection the bytes written to its socket, the texts passed to
    \* send(), the close() calls, the bytes read and the windows handed to
    \* bufferFilled() (with the arguments a command window was split into);
    \* the last broadcast() call; per connection the results of write() other
    \* than a complete write
    ncid, nsend, wire, sent, closes, rcvd, filled, lastCast, wres,
    \* history of the iteration of the server loop in progress: the accept()
    \* calls that gave a socket, and the descriptors receive() and transfer()
    \* were called for, in order
    tally,
    \* beside the server: a CsDtWriteBuffer, the values written to it, and
    \* the CsDtReadBuffer that reads its data back
    codec,
    \* the server of chatserver_fork.cpp, with its kernel objects, its
    \* children and its history
    fork

vars == <<clientNameSet, clientServices, polls, numAvailables, killedService, idx,
          pc, pending, ret, spins, socks, backlog, budget,
          ncid, nsend, wire, sent, closes, rcvd, filled, lastCast, wres, tally,
          codec, fork>>

progVars == <<clientNameSet, clientServices, polls, numAvailables, killedService,
              idx, pc, pending, ret, spins>>
histVars == <<ncid, nsend, wire, sent, closes, rcvd, filled, lastCast, wres, tally,
              codec, fork>>

\* the poll server and the buffers beside it, which the fork server leaves
\* alone
pollVars == <<progVars, socks, backlog, budget, ncid, nsend, wire, sent, closes,
              rcvd, filled, lastCast, wres, tally, codec>>

\* the listening socket's descriptor; client sockets get the lowest free one
\* above it
ListenFd == 3

POLLIN == "POLLIN"
POLLOUT == "POLLOUT"

stTerminated == "stTerminated"
stNameSize == "stNameSize"
stNameBuffer == "stNameBuffer"
stPacketSize == "stPacketSize"
stPacketData == "stPacketData"

\* CsDtDefaultHandler(server): status(stNameSize), hasJoinedServer(false)
NewHandler ==
    [status |-> stNameSize, dataSize |-> <<0, 0, 0, 0>>, dataBuffer |-> <<>>,
     hasJoinedServer |-> FALSE, clientName |-> <<>>]

\* CsRtPollClientService(...) moved into the registry, with its handler
NewService(cid, pollIndex) ==
    [cid |-> cid, pollIndex |-> pollIndex, readPointer |-> 0, clientName |-> <<>>,
     outputBuffers |-> <<>>, outputSizes |-> <<>>, writePointer |-> 0,
     handler |-> NewHandler]

\* the keys of a std::map<int, ...> in iteration order
RECURSIVE SortedFds(_)
SortedFds(S) ==
    IF S = {} THEN <<>>
    ELSE LET m == CHOOSE x \in S : \A y \in S : x <= y
         IN  <<m>> \o SortedFds(S \ {m})

(***************************************************************************)
(* chatserver_poll.cpp: the services a handler calls.                      *)
(***************************************************************************)
\* userOnline that takes every name
UserOnlineAny(names, online) == TRUE

\* userOnline: refused when the name is taken
UserOnlineOk(names, online) == online \notin names

\* broadcast that does not look at mutedUsers
BroadcastReachesMuted(svc, mutedUsers) == svc.clientName # <<>>

\* broadcast: whether the control block svc gets the message
BroadcastReaches(svc, mutedUsers) ==
    svc.clientName # <<>> /\ svc.clientName \notin mutedUsers

\* broadcast: the send() calls it makes, walking the registry
RECURSIVE BroadcastSends(_, _, _, _)
BroadcastSends(services, fds, message, mutedUsers) ==
    IF fds = <<>> THEN <<>>
    ELSE (IF BroadcastReaches(services[Head(fds)], mutedUsers)
          THEN <<[fd |-> Head(fds), text |-> message]>> ELSE <<>>)
         \o BroadcastSends(services, Tail(fds), message, mutedUsers)

Broadcast(services, message, mutedUsers) ==
    BroadcastSends(services, SortedFds(DOMAIN services), message, mutedUsers)

\* what the history keeps of a broadcast() call
CastRecord(services, message, mutedUsers) ==
    [text |-> message, muted |-> mutedUsers,
     names |-> [f \in DOMAIN services |-> services[f].clientName],
     targets |-> [k \in 1..Len(Broadcast(services, message, mutedUsers)) |->
                     Broadcast(services, message, mutedUsers)[k].fd]]

(***************************************************************************)
(* defaultlogic.cpp: CsDtDefaultHandler.                                   *)
(***************************************************************************)
\* dataSize as the int it is
DataSize(h) == BytesInt(h.dataSize)

\* a next() that announces the window of a length for every other state
NextSizeNeverZero(h) ==
    IF h.status \in {stPacketData, stNameBuffer} THEN DataSize(h) ELSE IntSize

\* next(): the size of the window the handler wants filled
NextSize(h) ==
    IF h.status \in {stPacketSize, stNameSize} THEN IntSize
    ELSE IF h.status \in {stPacketData, stNameBuffer} THEN DataSize(h)
    ELSE 0

\* std::vector<char>::resize from empty: n zero bytes
Zeros(n) == [k \in 1..n |-> 0]

\* the bytes std::string(dataBuffer.data()) may read behind a buffer that
\* holds no NUL, up to the first NUL it meets there
OverRead == {<<>>, <<63>>}

\* clientName = std::string(dataBuffer.data())
NameOf(dataBuffer, over) ==
    IF Find(dataBuffer, 0) >= 0 THEN CStr(dataBuffer) ELSE dataBuffer \o over

\* what a call of a handler's method leaves: the handler, the name in its
\* control block, the taken names, the send() calls made, the broadcast()
\* call made (if any), and how the call ended
Outcome(h, svcName, names, sends, cast, fate) ==
    [handler |-> h, svcName |-> svcName, names |-> names, sends |-> sends,
     cast |-> cast, fate |-> fate]

\* bufferFilled(), case stNameSize
FilledNameSize(services, fd) ==
    LET svc == services[fd]
        h == svc.handler
    IN  IF DataSize(h) >= NameLimit
        THEN Outcome([h EXCEPT !.status = stTerminated],
                     svc.clientName, clientNameSet, <<>>, <<>>, "ok")
        ELSE IF DataSize(h) < 0
        THEN Outcome([h EXCEPT !.status = stNameBuffer],
                     svc.clientName, clientNameSet, <<>>, <<>>, "crashed")
        ELSE Outcome([h EXCEPT !.status = stNameBuffer,
                               !.dataBuffer = Zeros(DataSize(h))],
                     svc.clientName, clientNameSet, <<>>, <<>>, "ok")

\* bufferFilled(), case stPacketSize
FilledPacketSize(services, fd) ==
    LET svc == services[fd]
        h == svc.handler
    IN  IF DataSize(h) < 0
        THEN Outcome([h EXCEPT !.status = stPacketData],
                     svc.clientName, clientNameSet, <<>>, <<>>, "crashed")
        ELSE Outcome([h EXCEPT !.status = stPacketData,
                               !.dataBuffer = Zeros(DataSize(h))],
                     svc.clientName, clientNameSet, <<>>, <<>>, "ok")

\* bufferFilled(), case stNameBuffer
FilledNameBuffer(services, fd, over) ==
    LET svc == services[fd]
        h == svc.handler
        name == NameOf(h.dataBuffer, over)
        joined == [services EXCEPT ![fd].clientName = name]
    IN  IF UserOnlineOk(clientNameSet, name)
        THEN Outcome([h EXCEPT !.clientName = name, !.dataBuffer = <<>>,
                               !.hasJoinedServer = TRUE, !.status = stPacketSize],
                     name, clientNameSet \cup {name},
                     <<[fd |-> fd, text |-> WelcomeText(name)]>>
                        \o Broadcast(joined, JoinText(name, svc.cid), {name}),
                     <<CastRecord(joined, JoinText(name, svc.cid), {name})>>,
                     "ok")
        ELSE Outcome([h EXCEPT !.clientName = name, !.dataBuffer = <<>>,
                               !.status = stTerminated],
                     svc.clientName, clientNameSet,
                     <<[fd |-> fd, text |-> SorryText(name)]>>, <<>>, "ok")

\* processPacket(): [ok, sends, cast, fate], and the arguments vector the
\* split of a command has built when it ends
ProcessPacket(services, fd) ==
    LET svc == services[fd]
        h == svc.handler
        id == ReadInt(h.dataBuffer)
        str == ReadString(id.rest)
        fail == [ok |-> FALSE, sends |-> <<>>, cast |-> <<>>, fate |-> "ok",
                 args |-> <<>>]
    IN  IF ~id.ok THEN fail
        ELSE IF id.value = 0
        THEN IF ~str.ok THEN fail
             ELSE [ok |-> TRUE,
                   sends |-> Broadcast(services,
                                       ChatText(h.clientName, str.value), {}),
                   cast |-> <<CastRecord(services,
                                         ChatText(h.clientName, str.value), {})>>,
                   fate |-> "ok", args |-> <<>>]
        ELSE IF id.value = 1
        THEN IF ~str.ok THEN fail
             ELSE IF SplitHangs(str.value)
             THEN [ok |-> TRUE, sends |-> <<>>, cast |-> <<>>, fate |-> "hung",
                   args |-> <<>>]
             ELSE IF SplitArgs(str.value) = <<>>
             THEN [ok |-> TRUE, sends |-> <<>>, cast |-> <<>>, fate |-> "ok",
                   args |-> <<>>]
             ELSE [ok |-> TRUE,
                   sends |-> <<[fd |-> fd,
                                text |-> CommandReply(SplitArgs(str.value),
                                                      clientNameSet)]>>,
                   cast |-> <<>>, fate |-> "ok", args |-> SplitArgs(str.value)]
        ELSE fail

\* a bufferFilled() that ends the session whatever processPacket returns
FilledPacketDataEnds(services, fd) ==
    LET svc == services[fd]
        h == svc.handler
        done == ProcessPacket(services, fd)
    IN  Outcome([h EXCEPT !.status = stTerminated, !.dataBuffer = <<>>],
                svc.clientName, clientNameSet, done.sends, done.cast, done.fate)

\* a bufferFilled() that goes on whatever processPacket returns
FilledPacketDataGoesOn(services, fd) ==
    LET svc == services[fd]
        h == svc.handler
        done == ProcessPacket(services, fd)
    IN  Outcome([h EXCEPT !.status = stPacketSize, !.dataBuffer = <<>>],
                svc.clientName, clientNameSet, done.sends, done.cast, done.fate)

\* bufferFilled(), case stPacketData
FilledPacketData(services, fd) ==
    LET svc == services[fd]
        h == svc.handler
        done == ProcessPacket(services, fd)
    IN  Outcome([h EXCEPT !.status = IF done.ok THEN stPacketSize ELSE stTerminated,
                          !.dataBuffer = <<>>],
                svc.clientName, clientNameSet, done.sends, done.cast, done.fate)

\* bufferFilled()
BufferFilled(services, fd, over) ==
    LET svc == services[fd]
        h == svc.handler
    IN  IF h.status = stNameSize THEN FilledNameSize(services, fd)
        ELSE IF h.status = stPacketSize THEN FilledPacketSize(services, fd)
        ELSE IF h.status = stPacketData THEN FilledPacketData(services, fd)
        ELSE IF h.status = stNameBuffer THEN FilledNameBuffer(services, fd, over)
        ELSE Outcome([h EXCEPT !.status = stTerminated],
                     svc.clientName, clientNameSet, <<>>, <<>>, "ok")

\* a destructor that announces the leave of every handler
HandlerDestroyedAnnounces(fd) ==
    LET svc == clientServices[fd]
        h == svc.handler
    IN  [sends |-> Broadcast(clientServices, LeaveText(h.clientName, svc.cid),
                             {h.clientName}),
         cast |-> <<CastRecord(clientServices, LeaveText(h.clientName, svc.cid),
                               {h.clientName})>>]

\* ~CsDtDefaultHandler(): the leave announcement, [sends, cast]
HandlerDestroyed(fd) ==
    LET svc == clientServices[fd]
        h == svc.handler
    IN  IF h.hasJoinedServer
        THEN [sends |-> Broadcast(clientServices, LeaveText(h.clientName, svc.cid),
                                  {h.clientName}),
              cast |-> <<CastRecord(clientServices,
                                    LeaveText(h.clientName, svc.cid),
                                    {h.clientName})>>]
        ELSE [sends |-> <<>>, cast |-> <<>>]

(***************************************************************************)
(* The clients: what they send.                                            *)
(***************************************************************************)
\* the handshake of a client: the length of the name, then the name
NameFrame(name) == IntBytes(Len(name)) \o name

\* a packet: the length of the payload, then the id and the string
PacketFrame(id, str) ==
    IntBytes(2 * IntSize + Len(str)) \o IntBytes(id) \o IntBytes(Len(str)) \o str

\* the names clients choose: "a", "b", a NUL byte
ClientNames == {<<97>>, <<98>>, <<0>>}

\* a chat packet saying "x"
ChatFrame == PacketFrame(0, <<120>>)

\* what a client that keeps to the protocol sends next when its later
\* frames are taken from packets: first its name, "a" for the first
\* connection, "b" for the second and so on
Script(fd, packets) ==
    IF socks[fd].said = 0 THEN {NameFrame(<<96 + socks[fd].cid>>)} ELSE packets

\* the frames the clients send when they send what they like
Frames == {NameFrame(n) : n \in ClientNames} \cup {ChatFrame}

(***************************************************************************)
(* The kernel: read() and write() on a client socket.                      *)
(***************************************************************************)
\* the results write(fd, ., n) may have: all n bytes to a client that reads;
\* as many as the send buffer has room for, or EWOULDBLOCK when it has none,
\* to a client that does not; an error once the peer has reset the
\* connection, or for a passing reason (transient)
WriteResults(fd, n) ==
    IF fd \notin DOMAIN socks \/ socks[fd].peer = "reset"
    THEN {[ret |-> -1, errno |-> "EPIPE", transient |-> FALSE]}
    ELSE (IF ~socks[fd].slow
          THEN {[ret |-> n, errno |-> "", transient |-> FALSE]}
          ELSE IF socks[fd].room = 0
          THEN {[ret |-> -1, errno |-> "EWOULDBLOCK", transient |-> FALSE]}
          ELSE {[ret |-> Min(n, socks[fd].room), errno |-> "", transient |-> FALSE]})
         \cup (IF budget.writeErrors > 0
               THEN {[ret |-> -1, errno |-> "ENOBUFS", transient |-> TRUE]}
               ELSE {})

\* the socket after write() returned res
SocksAfterWrite(fd, res) ==
    IF res.ret > 0 /\ socks[fd].slow
    THEN [socks EXCEPT ![fd].room = @ - res.ret] ELSE socks

\* the history of a connection's write() results after write(., ., n)
\* returned res
Noted(cid, res, n) ==
    IF res.ret = n THEN wres
    ELSE [wres EXCEPT ![cid] = @ \cup {IF res.ret > 0 THEN "partial" ELSE res.errno}]

BudgetAfterWrite(res) ==
    IF res.transient THEN [budget EXCEPT !.writeErrors = @ - 1] ELSE budget

\* the byte write() reads at 0-based offset k of a chunk: behind the end of
\* the allocation it is whatever the heap holds there
JunkBytes == {0, 63}
Junk(junk) == [m |-> 0, k |-> 0, b |-> junk]
ChunkByte(chunk, k, junk) == IF k < Len(chunk) THEN chunk[k + 1] ELSE Junk(junk)

\* the bytes chunk + from .. chunk + from + n - 1
ChunkBytes(chunk, from, n, junk) ==
    [j \in 1..n |-> ChunkByte(chunk, from + j - 1, junk)]

\* a send() that puts the length of the whole packet in front of it
SendBufferFramed(text) ==
    WriteString(WriteInt(WriteInt(<<>>, 2 * IntSize + Len(text)), 0), text)

\* send(): the packet, each byte tagged with the send() call and its offset
SendBuffer(text) == WriteString(WriteInt(<<>>, 0), text)

TaggedBuffer(ser, text) ==
    LET buffer == SendBuffer(text)
    IN  [j \in 1..Len(buffer) |-> [m |-> ser, k |-> j - 1, b |-> buffer[j]]]

\* the sizes read(fd, ., want) may return when avail bytes are there
ReadSizes(avail, want) ==
    {Min(avail, want)}
    \cup (IF budget.shortReads > 0 THEN 1..(Min(avail, want) - 1) ELSE {})

(***************************************************************************)
(* Init, and the steps of the clients.                                     *)
(***************************************************************************)
\* CsDtWriteBuffer(): an empty buffer, nothing written or read yet
\* nothing was called yet in the iteration
NewTally == [accepted |-> 0, received |-> <<>>, transferred |-> <<>>]

NewCodec ==
    [buffer |-> <<>>, wrote |-> <<>>, made |-> <<>>, reading |-> FALSE,
     left |-> <<>>, got |-> <<>>, used |-> <<>>]

\* chatserver_fork.cpp, enum CsRtIpcRequest
ipcJoin == 0
ipcLeave == 1
ipcBroadcast == 2
ipcListOnline == 3

\* bounds of the run of the fork server: the connections made, the frames
\* the clients send, the connections they close, the read() calls that
\* return less than was asked for; the bytes a pipe holds, and the longest
\* write to a pipe that is atomic
ForkAccepts == 2
ForkFrames == 2
ForkCloses == 1
ForkShortReads == 1
PipeCap == 40
PipeBuf == 8

\* the largest packet a child is followed with: after the announcement of
\* a larger one it is left where it is ("far")
MaxWindow == 64

\* no request being parsed
NoRequest ==
    [conn |-> -1, id |-> -1, message |-> <<>>, user |-> <<>>, ignored |-> {},
     left |-> 0]

\* main() of chatserver_fork.cpp before the loop: the parent is about to
\* accept, the shared pipe is empty, pipeMutex is 1 and pipeSemaphore 0,
\* clientHandlers and nameSet are empty; no child, no socket, empty history
NewFork ==
    [pc |-> "accept", sig |-> FALSE, pipe |-> <<>>, pipeMutex |-> 1,
     pipeSemaphore |-> 0, nameSet |-> {}, clientHandlers |-> <<>>,
     req |-> NoRequest, want |-> 0, acc |-> <<>>, targets |-> <<>>,
     parts |-> <<>>, children |-> <<>>, control |-> <<>>, socks |-> <<>>,
     open |-> <<>>, backlog |-> 0,
     budget |-> [accepts |-> ForkAccepts, frames |-> ForkFrames,
                 closes |-> ForkCloses, shortReads |-> ForkShortReads],
     issued |-> <<>>, parsed |-> <<>>, casts |-> <<>>, filled |-> <<>>,
     wire |-> <<>>]

\* the state after the construction of main()'s locals, with what the
\* environment may do in the run
InitWith(b) ==
    /\ clientNameSet = {}
    /\ clientServices = <<>>
    /\ polls = <<[fd |-> ListenFd, events |-> {POLLIN}, revents |-> {}]>>
    /\ numAvailables = 0
    /\ killedService = {}
    /\ idx = 0
    /\ pc = "poll"
    /\ pending = <<>>
    /\ ret = "poll"
    /\ spins = 0
    /\ socks = <<>>
    /\ backlog = 0
    /\ budget = b
    /\ ncid = 0
    /\ nsend = 0
    /\ wire = <<>>
    /\ sent = <<>>
    /\ closes = <<>>
    /\ rcvd = <<>>
    /\ filled = <<>>
    /\ lastCast = <<>>
    /\ wres = <<>>
    /\ tally = NewTally
    /\ codec = NewCodec
    /\ fork = NewFork

Init ==
    InitWith([accepts |-> MaxAccept, frames |-> MaxFrames, closes |-> MaxCloses,
              resets |-> 0, stalls |-> 0, spurious |-> 0, shortReads |-> 0,
              writeErrors |-> 0,
              acceptErrors |-> 0, fcntlErrors |-> 0])

\* the server sits in nextSend on fd, retrying a write that would block
Spinning(fd) ==
    /\ pc = "send"
    /\ pending # <<>>
    /\ Head(pending).fd = fd
    /\ Head(pending).ser # 0
    /\ fd \in DOMAIN socks
    /\ socks[fd].slow
    /\ socks[fd].room = 0

\* the clients act while the server waits in poll(); a client whose socket the
\* server retries a write on may also read again or reset
ClientMayAct(fd) == pc = "poll" \/ Spinning(fd)

\* a client connects
ClientConnect ==
    /\ pc = "poll"
    /\ budget.accepts > 0
    /\ backlog' = backlog + 1
    /\ budget' = [budget EXCEPT !.accepts = @ - 1]
    /\ UNCHANGED <<progVars, socks, histVars>>

\* a client writes a frame to its socket
ClientSend(fd, frame) ==
    /\ pc = "poll"
    /\ budget.frames > 0
    /\ socks[fd].peer = "open"
    /\ socks' = [socks EXCEPT ![fd].inbuf = @ \o frame, ![fd].said = @ + 1]
    /\ budget' = [budget EXCEPT !.frames = @ - 1]
    /\ UNCHANGED <<progVars, backlog, histVars>>

\* a client closes its socket: the server reads what is in flight, then 0
ClientClose(fd) ==
    /\ pc = "poll"
    /\ budget.closes > 0
    /\ socks[fd].peer = "open"
    /\ socks' = [socks EXCEPT ![fd].peer = "closed"]
    /\ budget' = [budget EXCEPT !.closes = @ - 1]
    /\ UNCHANGED <<progVars, backlog, histVars>>

\* a client resets the connection: reads and writes fail from now on
ClientReset(fd) ==
    /\ ClientMayAct(fd)
    /\ budget.resets > 0
    /\ socks[fd].peer = "open"
    /\ socks' = [socks EXCEPT ![fd].peer = "reset", ![fd].inbuf = <<>>]
    /\ budget' = [budget EXCEPT !.resets = @ - 1]
    /\ UNCHANGED <<progVars, backlog, histVars>>

\* a client stops reading: the server can write what the send buffer holds
ClientStall(fd) ==
    /\ pc = "poll"
    /\ budget.stalls > 0
    /\ socks[fd].peer = "open"
    /\ ~socks[fd].slow
    /\ socks' = [socks EXCEPT ![fd].slow = TRUE, ![fd].room = SockBuf]
    /\ budget' = [budget EXCEPT !.stalls = @ - 1]
    /\ UNCHANGED <<progVars, backlog, histVars>>

\* a stalled client reads again: the socket is writable
ClientDrain(fd) ==
    /\ ClientMayAct(fd)
    /\ socks[fd].peer = "open"
    /\ socks[fd].slow
    /\ socks' = [socks EXCEPT ![fd].slow = FALSE, ![fd].room = SockBuf]
    /\ UNCHANGED <<progVars, backlog, budget, histVars>>

\* poll() will report the socket readable though no byte is there to read
SpuriousReady(fd) ==
    /\ pc = "poll"
    /\ socks[fd].peer = "open"
    /\ socks[fd].inbuf = <<>>
    /\ budget.spurious > 0
    /\ ~socks[fd].glitch
    /\ socks' = [socks EXCEPT ![fd].glitch = TRUE]
    /\ budget' = [budget EXCEPT !.spurious = @ - 1]
    /\ UNCHANGED <<progVars, backlog, histVars>>

(***************************************************************************)
(* chatserver_poll.cpp, main(): poll() and accept().                       *)
(***************************************************************************)
\* the events poll() reports for an entry
Ready(e) ==
    IF e.fd = ListenFd
    THEN (IF backlog > 0 THEN {POLLIN} \cap e.events ELSE {})
    ELSE IF e.fd \notin DOMAIN socks THEN {"POLLNVAL"}
    ELSE (IF socks[e.fd].inbuf # <<>> \/ socks[e.fd].peer # "open"
             \/ socks[e.fd].glitch
          THEN {POLLIN} \cap e.events ELSE {})
         \cup (IF ~socks[e.fd].slow \/ socks[e.fd].room > 0
                  \/ socks[e.fd].peer = "reset"
               THEN {POLLOUT} \cap e.events ELSE {})
         \cup (IF socks[e.fd].peer = "reset" THEN {"POLLERR"} ELSE {})

\* poll(polls.data(), nfds, -1) fills in revents of the first nfds entries
Polled(nfds) ==
    [k \in 1..Len(polls) |->
        IF k <= nfds THEN [polls[k] EXCEPT !.revents = Ready(polls[k])] ELSE polls[k]]

\* the number poll() returns
NumReady(nfds) ==
    Cardinality({k \in 1..Min(nfds, Len(polls)) : Ready(polls[k]) # {}})

\* the descriptor accept() returns: the lowest free one
FreeFd == CHOOSE f \in (ListenFd + 1)..(ListenFd + 1 + Cardinality(DOMAIN socks)) :
            /\ f \notin DOMAIN socks
            /\ \A g \in (ListenFd + 1)..(f - 1) : g \in DOMAIN socks

\* the sockets once poll() has returned: what it reported is reported
Calm == [f \in DOMAIN socks |-> [socks[f] EXCEPT !.glitch = FALSE]]

\* the socket of a connection just accepted
NewSock(cid) ==
    [cid |-> cid, said |-> 0, inbuf |-> <<>>, peer |-> "open", slow |-> FALSE,
     room |-> SockBuf, glitch |-> FALSE]

\* what accept() and the two fcntl() calls behind it may give: a socket made
\* non-blocking; a socket that cannot be made non-blocking; no socket, the
\* connection being gone from the listen queue (ECONNABORTED) or still in it
\* (EMFILE)
AcceptResults ==
    {"served"}
    \cup (IF budget.fcntlErrors > 0 THEN {"blocking"} ELSE {})
    \cup (IF budget.acceptErrors > 0 THEN {"aborted", "refused"} ELSE {})

\* a server that serves every socket accept() gives
IsValidClientSocketAny(res) == res \in {"served", "blocking"}

\* isValidClientSocket: accept() gave a socket and both fcntl() calls went
\* well
IsValidClientSocket(res) == res = "served"

\* the accept block with accept() and fcntl() ending as res says
Accepted(res, polled) ==
    /\ tally' = [NewTally EXCEPT !.accepted = IF res \in {"served", "blocking"}
                                              THEN 1 ELSE 0]
    /\ backlog' = IF res = "refused" THEN backlog ELSE backlog - 1
    /\ budget' = IF res = "blocking"
                 THEN [budget EXCEPT !.fcntlErrors = @ - 1]
                 ELSE IF res \in {"aborted", "refused"}
                 THEN [budget EXCEPT !.acceptErrors = @ - 1]
                 ELSE budget
    /\ IF IsValidClientSocket(res)
       THEN \* a new poll entry and control block
            /\ socks' = (FreeFd :> NewSock(ncid + 1)) @@ Calm
            /\ polls' = Append(polled, [fd |-> FreeFd, events |-> {POLLIN},
                                        revents |-> {}])
            /\ clientServices' =
                 (FreeFd :> NewService(ncid + 1, Len(polls))) @@ clientServices
       ELSE \* close(clientSocket) when there is one; nothing is added
            /\ socks' = Calm
            /\ polls' = polled
            /\ UNCHANGED clientServices
    /\ IF res \in {"served", "blocking"}
       THEN /\ ncid' = ncid + 1
            /\ wire' = Append(wire, <<>>)
            /\ sent' = Append(sent, <<>>)
            /\ closes' = Append(closes, IF res = "blocking" THEN 1 ELSE 0)
            /\ rcvd' = Append(rcvd, <<>>)
            /\ filled' = Append(filled, <<>>)
            /\ wres' = Append(wres, {})
       ELSE UNCHANGED <<ncid, wire, sent, closes, rcvd, filled, wres>>

\* the server loop, from poll() to the end of the accept block
Poll ==
    /\ pc = "poll"
    /\ LET nfds == Cardinality(DOMAIN clientServices) + 1
           polled == Polled(nfds)
           num == NumReady(nfds)
       IN  /\ num > 0
           /\ IF POLLIN \in polled[1].revents
              THEN /\ numAvailables' = num - 1
                   /\ \E res \in AcceptResults : Accepted(res, polled)
              ELSE /\ numAvailables' = num
                   /\ polls' = polled
                   /\ socks' = Calm
                   /\ tally' = NewTally
                   /\ UNCHANGED <<backlog, budget, ncid, clientServices, wire, sent,
                                  closes, rcvd, filled, wres>>
    /\ killedService' = {}
    /\ idx' = 1
    /\ pc' = "loop"
    /\ UNCHANGED <<clientNameSet, pending, ret, spins, nsend, lastCast, codec, fork>>

(***************************************************************************)
(* chatserver_poll.cpp, main(): the loop over the poll entries, and        *)
(* CsRtPollClientService::receive().                                       *)
(***************************************************************************)
\* polls[k] of the source (0-based)
PollAt(k) == polls[k + 1]

\* the loop stands at an entry that poll() reported an awaited event for
AtReadyEntry ==
    /\ pc = "loop"
    /\ idx < Len(polls)
    /\ numAvailables > 0
    /\ PollAt(idx).revents \cap PollAt(idx).events # {}

\* the send() calls of a handler, not yet begun
Queued(sends) ==
    [k \in 1..Len(sends) |->
        [fd |-> sends[k].fd, text |-> sends[k].text, ser |-> 0, dataSent |-> 0]]

\* for(...) runs out of entries, or of reported events
LoopEnd ==
    /\ pc = "loop"
    /\ idx >= Len(polls) \/ numAvailables <= 0
    /\ pc' = IF killedService = {} THEN "poll" ELSE "sweep"
    /\ idx' = IF killedService = {} THEN 0 ELSE 1
    /\ numAvailables' = IF killedService = {} THEN 0 ELSE numAvailables
    /\ UNCHANGED <<clientNameSet, clientServices, polls, killedService,
                   pending, ret, spins, socks, backlog, budget, histVars>>

\* an entry without an awaited event: continue
LoopSkip ==
    /\ pc = "loop"
    /\ idx < Len(polls)
    /\ numAvailables > 0
    /\ PollAt(idx).revents \cap PollAt(idx).events = {}
    /\ idx' = idx + 1
    /\ UNCHANGED <<clientNameSet, clientServices, polls, numAvailables, killedService,
                   pc, pending, ret, spins, socks, backlog, budget, histVars>>

\* read() fails with an error (the peer has reset), or returns 0 (the peer
\* has closed and nothing is in flight, or no byte was asked for)
ReadFails(fd) ==
    \/ socks[fd].peer = "reset"
    \/ socks[fd].peer = "closed" /\ socks[fd].inbuf = <<>>
    \/ NextSize(clientServices[fd].handler) = clientServices[fd].readPointer

\* receive() that takes every read for the end of the strip
StripFinishedAlways(svc, readSize) == TRUE

\* receive(): (readPointer + readSize) == size
StripFinished(svc, readSize) ==
    svc.readPointer + readSize = NextSize(svc.handler)

\* receive() with read() returning k bytes; over is what a name read behind
\* its buffer finds there
Received(fd, k, over) ==
    LET svc == clientServices[fd]
        h == svc.handler
        size == NextSize(h)
        avail == Len(socks[fd].inbuf)
        bytes == Slice(socks[fd].inbuf, 1, k)
        inSize == h.status \in {stPacketSize, stNameSize}
        read == IF inSize
                THEN [h EXCEPT !.dataSize = Overwrite(@, svc.readPointer, bytes)]
                ELSE [h EXCEPT !.dataBuffer = Overwrite(@, svc.readPointer, bytes)]
        full == StripFinished(svc, k)
        out == IF full
               THEN BufferFilled([clientServices EXCEPT ![fd].handler = read],
                                 fd, over)
               ELSE Outcome(read, svc.clientName, clientNameSet, <<>>, <<>>, "ok")
    IN  /\ socks' = [socks EXCEPT ![fd].inbuf = Slice(@, k + 1, avail)]
        /\ budget' = IF k < Min(avail, size - svc.readPointer)
                     THEN [budget EXCEPT !.shortReads = @ - 1] ELSE budget
        /\ clientServices' =
             [clientServices EXCEPT
                 ![fd].handler = out.handler,
                 ![fd].clientName = out.svcName,
                 ![fd].readPointer = IF full THEN 0 ELSE svc.readPointer + k]
        /\ clientNameSet' = out.names
        /\ pending' = Queued(out.sends)
        /\ lastCast' = IF out.cast # <<>> THEN out.cast ELSE lastCast
        /\ killedService' = IF NextSize(out.handler) = 0
                            THEN killedService \cup {fd} ELSE killedService
        /\ pc' = IF out.fate # "ok" THEN out.fate
                 ELSE IF out.sends # <<>> THEN "send" ELSE "xfer"
        /\ rcvd' = [rcvd EXCEPT ![svc.cid] = @ \o bytes]
        /\ filled' = IF full
                     THEN [filled EXCEPT ![svc.cid] =
                             Append(@, [st |-> h.status,
                                        win |-> IF inSize THEN read.dataSize
                                                ELSE read.dataBuffer,
                                        args |-> IF h.status = stPacketData
                                                 THEN ProcessPacket(
                                                        [clientServices EXCEPT
                                                           ![fd].handler = read],
                                                        fd).args
                                                 ELSE <<>>])]
                     ELSE filled

\* the body of the loop for an entry with an awaited event, up to the call of
\* receive() when the entry is readable
Receive ==
    /\ AtReadyEntry
    /\ numAvailables' = numAvailables - 1
    /\ ret' = "xfer"
    /\ LET fd == PollAt(idx).fd
       IN  IF POLLIN \notin PollAt(idx).revents
           THEN \* writable only
                /\ pc' = "xfer"
                /\ UNCHANGED <<clientNameSet, clientServices, killedService, pending,
                               socks, budget, rcvd, filled, lastCast>>
           ELSE IF ReadFails(fd)
           THEN \* return -1: the entry is killed
                /\ killedService' = killedService \cup {fd}
                /\ pc' = "xfer"
                /\ UNCHANGED <<clientNameSet, clientServices, pending, socks, budget,
                               rcvd, filled, lastCast>>
           ELSE IF socks[fd].inbuf = <<>>
           THEN \* EWOULDBLOCK: return 0, nothing changed
                /\ pc' = "xfer"
                /\ UNCHANGED <<clientNameSet, clientServices, killedService, pending,
                               socks, budget, rcvd, filled, lastCast>>
           ELSE \E k \in ReadSizes(Len(socks[fd].inbuf),
                                   NextSize(clientServices[fd].handler)
                                   - clientServices[fd].readPointer),
                   over \in OverRead :
                  Received(fd, k, over)
    /\ tally' = IF POLLIN \in PollAt(idx).revents
                 THEN [tally EXCEPT !.received = Append(@, PollAt(idx).fd)]
                 ELSE tally
    /\ UNCHANGED <<polls, idx, spins, backlog, ncid, nsend, wire, sent, closes,
                   wres, codec, fork>>

\* processPacket(): the while loop over the command finds a space at
\* position 0 and changes nothing, again and again
SplitLoop ==
    /\ pc = "hung"
    /\ spins' = IF spins < MaxSpin THEN spins + 1 ELSE 0
    /\ UNCHANGED <<clientNameSet, clientServices, polls, numAvailables, killedService,
                   idx, pc, pending, ret, socks, backlog, budget, histVars>>

(***************************************************************************)
(* chatserver_poll.cpp: CsRtPollClientService::send() and nextSend().      *)
(***************************************************************************)
\* the loop goes on after the send() in progress has returned
SendReturns ==
    /\ pending' = Tail(pending)
    /\ spins' = 0
    /\ pc' = IF Tail(pending) = <<>> THEN ret ELSE "send"

\* polls[pollIndex].events |= POLLOUT
WithPollOut(p, pollIndex) ==
    [p EXCEPT ![pollIndex + 1].events = @ \cup {POLLOUT}]

\* a removal of the flag that removes nothing
PollOutKept(p, pollIndex) == p

\* polls[pollIndex].events |= POLLOUT; ^= POLLOUT
WithoutPollOut(p, pollIndex) ==
    [p EXCEPT ![pollIndex + 1].events = @ \ {POLLOUT}]

\* nextSend, the queue is empty and the write loop was left after dataSent
\* bytes: the control block with what is kept for transfer()
Residue(svc, buffer, dataSent) ==
    [svc EXCEPT
        !.outputBuffers = Append(@, Slice(buffer, dataSent + 1, Len(buffer))),
        !.outputSizes = Append(@, Len(buffer)),
        !.writePointer = dataSent]

\* nextSend, the queue is not empty: clone and push the buffer
Pushed(svc, buffer) ==
    [svc EXCEPT !.outputBuffers = Append(@, buffer),
                !.outputSizes = Append(@, Len(buffer))]

\* send() builds the packet and enters nextSend(); with a queue the packet is
\* pushed and nextSend() returns
SendBegin ==
    /\ pc = "send"
    /\ pending # <<>>
    /\ Head(pending).ser = 0
    /\ LET fd == Head(pending).fd
           svc == clientServices[fd]
           buffer == TaggedBuffer(nsend + 1, Head(pending).text)
       IN  /\ nsend' = nsend + 1
           /\ sent' = [sent EXCEPT ![svc.cid] =
                        Append(@, [ser |-> nsend + 1, text |-> Head(pending).text])]
           /\ IF Len(svc.outputBuffers) > 0
              THEN /\ clientServices' = [clientServices EXCEPT ![fd] = Pushed(svc, buffer)]
                   /\ SendReturns
              ELSE /\ pending' = [pending EXCEPT ![1].ser = nsend + 1]
                   /\ UNCHANGED <<clientServices, spins, pc>>
    /\ UNCHANGED <<clientNameSet, polls, numAvailables, killedService, idx, ret,
                   socks, backlog, budget, ncid, wire, closes, rcvd, filled, lastCast,
                   wres, tally, codec, fork>>

\* nextSend gives up on a write that would block
RetryGivesUp ==
    /\ SendReturns
    /\ UNCHANGED <<clientServices, polls, wire>>

\* nextSend, `else continue`: write() is called again with what it was called
\* with
Retry ==
    /\ spins' = IF spins < MaxSpin THEN spins + 1 ELSE 0
    /\ UNCHANGED <<clientServices, polls, pending, pc, wire>>

\* nextSend(), the queue was empty: one write() of the loop
SendWrite ==
    /\ pc = "send"
    /\ pending # <<>>
    /\ Head(pending).ser # 0
    /\ LET fd == Head(pending).fd
           svc == clientServices[fd]
           buffer == TaggedBuffer(Head(pending).ser, Head(pending).text)
           dataSent == Head(pending).dataSent
       IN  \E res \in WriteResults(fd, Len(buffer) - dataSent) :
             /\ socks' = SocksAfterWrite(fd, res)
             /\ budget' = BudgetAfterWrite(res)
             /\ wres' = Noted(svc.cid, res, Len(buffer) - dataSent)
             /\ IF res.ret > 0
                THEN \* dataSent += newlySent
                     /\ wire' = [wire EXCEPT ![svc.cid] =
                                  @ \o Slice(buffer, dataSent + 1, dataSent + res.ret)]
                     /\ IF dataSent + res.ret < Len(buffer)
                        THEN /\ pending' =
                                  [pending EXCEPT ![1].dataSent = dataSent + res.ret]
                             /\ UNCHANGED <<spins, pc>>
                        ELSE SendReturns
                     /\ UNCHANGED <<clientServices, polls>>
                ELSE IF res.errno = "EWOULDBLOCK"
                THEN Retry
                ELSE \* break; the rest is cloned and pushed
                     /\ clientServices' =
                          [clientServices EXCEPT ![fd] = Residue(svc, buffer, dataSent)]
                     /\ polls' = WithPollOut(polls, svc.pollIndex)
                     /\ SendReturns
                     /\ UNCHANGED wire
    /\ UNCHANGED <<clientNameSet, numAvailables, killedService, idx, ret, backlog,
                   ncid, nsend, sent, closes, rcvd, filled, lastCast, tally, codec, fork>>

(***************************************************************************)
(* chatserver_poll.cpp: CsRtPollClientService::transfer() and its caller.  *)
(***************************************************************************)
\* a loop that stays at the entry it has served
NextEntryAgain ==
    /\ pc' = "loop"
    /\ idx' = idx

\* the loop moves on to the next entry
NextEntry ==
    /\ pc' = "loop"
    /\ idx' = idx + 1

\* the front chunk is written out: delete[], pop, writePointer = 0
Popped(svc) ==
    [svc EXCEPT !.outputBuffers = Tail(@), !.outputSizes = Tail(@),
                !.writePointer = 0]

\* transfer(): one write() of its loops, or its end on an empty queue
Transfer ==
    /\ pc = "xfer"
    /\ LET fd == PollAt(idx).fd
           svc == clientServices[fd]
       IN  IF POLLOUT \notin PollAt(idx).revents
           THEN \* not writable: transfer() is not called
                /\ NextEntry
                /\ UNCHANGED <<clientServices, polls, socks, budget, wire, wres>>
           ELSE IF svc.outputBuffers = <<>>
           THEN \* nothing to send: the flag is removed, return 0
                /\ polls' = WithoutPollOut(polls, svc.pollIndex)
                /\ NextEntry
                /\ UNCHANGED <<clientServices, socks, budget, wire, wres>>
           ELSE IF svc.writePointer >= Head(svc.outputSizes)
           THEN /\ clientServices' = [clientServices EXCEPT ![fd] = Popped(svc)]
                /\ UNCHANGED <<polls, pc, idx, socks, budget, wire, wres>>
           ELSE \E res \in WriteResults(fd, Head(svc.outputSizes) - svc.writePointer),
                   junk \in JunkBytes :
                  /\ socks' = SocksAfterWrite(fd, res)
                  /\ budget' = BudgetAfterWrite(res)
                  /\ wres' = Noted(svc.cid, res,
                                   Head(svc.outputSizes) - svc.writePointer)
                  /\ IF res.ret > 0
                     THEN /\ wire' = [wire EXCEPT ![svc.cid] =
                                        @ \o ChunkBytes(Head(svc.outputBuffers),
                                                        svc.writePointer, res.ret, junk)]
                          /\ IF svc.writePointer + res.ret < Head(svc.outputSizes)
                             THEN /\ clientServices' =
                                       [clientServices EXCEPT
                                          ![fd].writePointer = @ + res.ret]
                                  /\ UNCHANGED <<polls, pc, idx>>
                             ELSE /\ clientServices' =
                                       [clientServices EXCEPT ![fd] = Popped(svc)]
                                  /\ IF Tail(svc.outputBuffers) = <<>>
                                     THEN /\ polls' = WithoutPollOut(polls, svc.pollIndex)
                                          /\ NextEntry
                                     ELSE UNCHANGED <<polls, pc, idx>>
                     ELSE IF res.errno = "EWOULDBLOCK"
                     THEN \* break, break: return 0 with the queue as it is
                          /\ NextEntry
                          /\ UNCHANGED <<clientServices, polls, wire>>
                     ELSE \* return -1: main() removes the flag of polls[i]
                          /\ polls' = WithoutPollOut(polls, idx)
                          /\ NextEntry
                          /\ UNCHANGED <<clientServices, wire>>
    /\ tally' = IF POLLOUT \in PollAt(idx).revents /\ pc' = "loop"
                 THEN [tally EXCEPT !.transferred = Append(@, PollAt(idx).fd)]
                 ELSE tally
    /\ UNCHANGED <<clientNameSet, numAvailables, killedService, pending, ret, spins,
                   backlog, ncid, nsend, sent, closes, rcvd, filled, lastCast, codec, fork>>

(***************************************************************************)
(* chatserver_poll.cpp, main(): the removal of the killed entries.         *)
(***************************************************************************)
\* a map without the key
Without(m, key) == [f \in DOMAIN m \ {key} |-> m[f]]

\* a removal that copies the last entry's fd and leaves the events
PollsErasedFdOnly(k) ==
    LET last == polls[Len(polls)]
        moved == IF k < Len(polls) - 1
                 THEN [polls EXCEPT ![k + 1].fd = last.fd]
                 ELSE polls
    IN  SubSeq(moved, 1, Len(polls) - 1)

\* the poll array with entry k (0-based) removed: the last entry's fd and
\* events are copied over it, then the array is shortened
PollsErased(k) ==
    LET last == polls[Len(polls)]
        moved == IF k < Len(polls) - 1
                 THEN [polls EXCEPT ![k + 1].fd = last.fd, ![k + 1].events = last.events]
                 ELSE polls
    IN  SubSeq(moved, 1, Len(polls) - 1)

\* a removal that leaves the moved entry's pollIndex as it was
ServicesErasedStale(k) == Without(clientServices, PollAt(k).fd)

\* the registry with the control block of polls[k] erased and the moved
\* entry's pollIndex set
ServicesErased(k) ==
    LET gone == Without(clientServices, PollAt(k).fd)
        last == polls[Len(polls)]
    IN  IF k < Len(polls) - 1
        THEN [gone EXCEPT ![last.fd].pollIndex = k]
        ELSE gone

\* a teardown that erases the name the handler was given
NamesErasedOfHandler(svc) == clientNameSet \ {svc.handler.clientName}

\* the taken names after the teardown of a control block
NamesErased(svc) ==
    IF svc.clientName # <<>> THEN clientNameSet \ {svc.clientName} ELSE clientNameSet

\* close(), the queue freed, the name, the control block and the poll entry
\* erased
Erase ==
    LET fd == PollAt(idx).fd
        svc == clientServices[fd]
    IN  /\ socks' = Without(socks, fd)
        /\ closes' = [closes EXCEPT ![svc.cid] = @ + 1]
        /\ clientNameSet' = NamesErased(svc)
        /\ clientServices' = ServicesErased(idx)
        /\ polls' = PollsErased(idx)
        /\ pc' = "sweep"

\* the sweep is over: the next iteration of the server loop
SweepEnd ==
    /\ pc = "sweep"
    /\ idx >= Len(polls)
    /\ pc' = "poll"
    /\ idx' = 0
    /\ numAvailables' = 0
    /\ killedService' = {}
    /\ UNCHANGED <<clientNameSet, clientServices, polls, pending, ret, spins,
                   socks, backlog, budget, histVars>>

\* an entry that was not killed
SweepSkip ==
    /\ pc = "sweep"
    /\ idx < Len(polls)
    /\ PollAt(idx).fd \notin killedService
    /\ idx' = idx + 1
    /\ UNCHANGED <<clientNameSet, clientServices, polls, numAvailables, killedService,
                   pc, pending, ret, spins, socks, backlog, budget, histVars>>

\* a killed entry: the handler is deleted, which announces the leave; when it
\* has nobody to tell, the rest of the removal follows at once
SweepKill ==
    /\ pc = "sweep"
    /\ idx < Len(polls)
    /\ PollAt(idx).fd \in killedService
    /\ LET gone == HandlerDestroyed(PollAt(idx).fd)
       IN  /\ lastCast' = IF gone.cast # <<>> THEN gone.cast ELSE lastCast
           /\ IF gone.sends # <<>>
              THEN /\ pending' = Queued(gone.sends)
                   /\ pc' = "send"
                   /\ ret' = "erase"
                   /\ UNCHANGED <<socks, closes, clientNameSet, clientServices, polls>>
              ELSE /\ Erase
                   /\ UNCHANGED <<pending, ret>>
    /\ UNCHANGED <<numAvailables, killedService, idx, spins, backlog, budget,
                   ncid, nsend, wire, sent, rcvd, filled, wres, tally, codec, fork>>

\* the leave is announced: the rest of the removal
SweepErase ==
    /\ pc = "erase"
    /\ Erase
    /\ UNCHANGED <<numAvailables, killedService, idx, pending, ret, spins, backlog,
                   budget, ncid, nsend, wire, sent, rcvd, filled, lastCast, wres,
                   tally, codec, fork>>

(***************************************************************************)
(* The specification: the server with clients that connect, send names and *)
(* chat, and close.                                                        *)
(***************************************************************************)
Client ==
    \/ ClientConnect
    \/ \E fd \in DOMAIN socks :
         \/ \E frame \in Frames : ClientSend(fd, frame)
         \/ ClientClose(fd)

Server ==
    \/ Poll
    \/ LoopEnd
    \/ LoopSkip
    \/ Receive
    \/ SendBegin
    \/ SendWrite
    \/ Transfer
    \/ SweepEnd
    \/ SweepSkip
    \/ SweepKill
    \/ SweepErase

Next == Client \/ Server

Spec == Init /\ [][Next]_vars

(***************************************************************************)
(* The send path: clients that stop reading, read again and reset, and     *)
(* write() calls that fail for a passing reason.                           *)
(***************************************************************************)
\* bounds of this specification
SendFrames == 3
SendResets == 1
SendStalls == 1
SendWriteErrors == 2

SendInit ==
    InitWith([accepts |-> MaxAccept, frames |-> SendFrames, closes |-> 0,
              resets |-> SendResets, stalls |-> SendStalls, spurious |-> 0,
              shortReads |-> 0, writeErrors |-> SendWriteErrors,
              acceptErrors |-> 0, fcntlErrors |-> 0])

SendClient ==
    \/ ClientConnect
    \/ \E fd \in DOMAIN socks :
         \/ \E frame \in Script(fd, {ChatFrame}) : ClientSend(fd, frame)
         \/ ClientStall(fd)
         \/ ClientDrain(fd)
         \/ ClientReset(fd)

SendNext == SendClient \/ Server

SendSpec == SendInit /\ [][SendNext]_vars

(***************************************************************************)
(* The receive path: reads that return part of what is there, readiness    *)
(* reported for a socket with nothing to read, and reads that fail.        *)
(***************************************************************************)
\* bounds of this specification
RecvFrames == 3
RecvCloses == 1
RecvShortReads == 2
RecvSpurious == 1
RecvResets == 1

RecvInit ==
    InitWith([accepts |-> MaxAccept, frames |-> RecvFrames, closes |-> RecvCloses,
              resets |-> RecvResets, stalls |-> 0, spurious |-> RecvSpurious,
              shortReads |-> RecvShortReads, writeErrors |-> 0,
              acceptErrors |-> 0, fcntlErrors |-> 0])

RecvClient ==
    \/ ClientConnect
    \/ \E fd \in DOMAIN socks :
         \/ \E frame \in Script(fd, {ChatFrame}) : ClientSend(fd, frame)
         \/ ClientClose(fd)
         \/ SpuriousReady(fd)
         \/ ClientReset(fd)

RecvNext == RecvClient \/ Server

RecvSpec == RecvInit /\ [][RecvNext]_vars

(***************************************************************************)
(* The server as a process that keeps running: it takes a step whenever    *)
(* it can, while the clients do what they like, or nothing.                *)
(***************************************************************************)
\* a command the split loop cannot get through: " x"
SpaceCommand == PacketFrame(1, <<Space, 120>>)

\* bounds of this specification
FairFrames == 3
FairCloses == 1
FairStalls == 1

FairInit ==
    InitWith([accepts |-> MaxAccept, frames |-> FairFrames, closes |-> FairCloses,
              resets |-> 0, stalls |-> FairStalls, spurious |-> 0,
              shortReads |-> 0, writeErrors |-> 0,
              acceptErrors |-> 0, fcntlErrors |-> 0])

FairClient ==
    \/ ClientConnect
    \/ \E fd \in DOMAIN socks :
         \/ \E frame \in Script(fd, {ChatFrame, SpaceCommand}) :
              ClientSend(fd, frame)
         \/ ClientClose(fd)
         \/ ClientStall(fd)
         \/ ClientDrain(fd)

Running == Server \/ SplitLoop

FairNext == FairClient \/ Running

FairSpec == FairInit /\ [][FairNext]_vars /\ WF_vars(Running)

(***************************************************************************)
(* The protocol: clients that open with any name length and go on with     *)
(* chat, commands and packets the handler cannot parse.                    *)
(***************************************************************************)
\* bounds of this specification
ProtoFrames == 3
ProtoCloses == 1
\* the longest command made up of spaces and letters
MaxCommand == 3

\* the strings of at most n characters out of alphabet
RECURSIVE Strings(_, _)
Strings(alphabet, n) ==
    IF n = 0 THEN {<<>>}
    ELSE Strings(alphabet, n - 1)
         \cup {Append(str, c) : str \in {t \in Strings(alphabet, n - 1) :
                                            Len(t) = n - 1},
                                c \in alphabet}

\* a name of n characters, all "a"
LongName(n) == [k \in 1..n |-> 97]

\* what a client opens with: a name length and that many characters, or a
\* name length alone
Openings ==
    {NameFrame(<<97>>), NameFrame(<<98>>), NameFrame(LongName(NameLimit - 1)),
     IntBytes(0), IntBytes(-1), IntBytes(-2147483647 - 1),
     IntBytes(NameLimit), IntBytes(100), IntBytes(2147483647)}

\* the commands: "online", "help", and whatever can be typed with a space
\* and the letter x
Commands == {CmdOnline, CmdHelp} \cup Strings({Space, 120}, MaxCommand)

\* packets that are not a chat or a command: an unknown id, a packet too
\* short for an id, a string shorter than its length says, a string of
\* negative length, and packet lengths of zero and below
BadPackets ==
    {PacketFrame(2, <<120>>),
     IntBytes(2) \o <<1, 0>>,
     IntBytes(9) \o IntBytes(0) \o IntBytes(5) \o <<120>>,
     IntBytes(8) \o IntBytes(1) \o IntBytes(-1),
     IntBytes(0),
     IntBytes(-1)}

Packets == {ChatFrame} \cup {PacketFrame(1, c) : c \in Commands} \cup BadPackets

\* what a client sends next when it opens as it likes: an opening, then chat
Opened(fd) == IF socks[fd].said = 0 THEN Openings ELSE {ChatFrame}

\* bounds of the specification of the handshake
HandFrames == 3
HandCloses == 1

HandInit ==
    InitWith([accepts |-> MaxAccept, frames |-> HandFrames, closes |-> HandCloses,
              resets |-> 0, stalls |-> 0, spurious |-> 0, shortReads |-> 0,
              writeErrors |-> 0,
              acceptErrors |-> 0, fcntlErrors |-> 0])

HandClient ==
    \/ ClientConnect
    \/ \E fd \in DOMAIN socks :
         \/ \E frame \in Opened(fd) : ClientSend(fd, frame)
         \/ ClientClose(fd)

HandNext == HandClient \/ Server

HandSpec == HandInit /\ [][HandNext]_vars

ProtoInit ==
    InitWith([accepts |-> MaxAccept, frames |-> ProtoFrames, closes |-> ProtoCloses,
              resets |-> 0, stalls |-> 0, spurious |-> 0, shortReads |-> 0,
              writeErrors |-> 0,
              acceptErrors |-> 0, fcntlErrors |-> 0])

ProtoClient ==
    \/ ClientConnect
    \/ \E fd \in DOMAIN socks :
         \/ \E frame \in Script(fd, Packets) : ClientSend(fd, frame)
         \/ ClientClose(fd)

ProtoNext == ProtoClient \/ Server

ProtoSpec == ProtoInit /\ [][ProtoNext]_vars

(***************************************************************************)
(* The ends of a connection: clients that open with a name, a name that    *)
(* is taken or a length the handler refuses, go on with packets good and   *)
(* bad, close and reset, while write() calls fail for a passing reason.    *)
(***************************************************************************)
\* bounds of this specification
CancelFrames == 3
CancelCloses == 1
CancelResets == 1
CancelWriteErrors == 1

\* every client takes the name "a", or opens with a length of 64 or of 0
CancelOpenings == {NameFrame(<<97>>), IntBytes(NameLimit), IntBytes(0)}

\* a chat, the command "online", a packet with the id 2, a packet length of 0
CancelPackets ==
    {ChatFrame, PacketFrame(1, CmdOnline), PacketFrame(2, <<120>>), IntBytes(0)}

Cancelling(fd) == IF socks[fd].said = 0 THEN CancelOpenings ELSE CancelPackets

CancelInit ==
    InitWith([accepts |-> MaxAccept, frames |-> CancelFrames, closes |-> CancelCloses,
              resets |-> CancelResets, stalls |-> 0, spurious |-> 0,
              shortReads |-> 0, writeErrors |-> CancelWriteErrors,
              acceptErrors |-> 0, fcntlErrors |-> 0])

CancelClient ==
    \/ ClientConnect
    \/ \E fd \in DOMAIN socks :
         \/ \E frame \in Cancelling(fd) : ClientSend(fd, frame)
         \/ ClientClose(fd)
         \/ ClientReset(fd)

CancelNext == CancelClient \/ Server

CancelSpec == CancelInit /\ [][CancelNext]_vars

(***************************************************************************)
(* util.cpp on its own: values written to a CsDtWriteBuffer and read back  *)
(* from a CsDtReadBuffer over the bytes it holds.                          *)
(***************************************************************************)
\* bounds of this specification: the values written to one buffer, and the
\* longest string
MaxValues == 2
MaxString == 2

\* integers with every byte pattern that matters: zero, the signs, the
\* carries between the bytes, the ends of the range
CodecInts ==
    {0, 1, -1, 255, 256, -256, 65535, 16777216, 2147483647, -2147483647 - 1}

\* the strings of at most MaxString bytes out of NUL and "a"
CodecStrings == Strings({0, 97}, MaxString)

\* what is written: an int or a std::string
IntValue(n) == [kind |-> "int", value |-> n]
StringValue(str) == [kind |-> "string", value |-> str]

\* buffer.write(value)
CodecWrite(v) ==
    /\ ~codec.reading
    /\ Len(codec.wrote) < MaxValues
    /\ LET after == IF v.kind = "int" THEN WriteInt(codec.buffer, v.value)
                    ELSE WriteString(codec.buffer, v.value)
       IN  codec' = [codec EXCEPT !.buffer = after,
                                  !.wrote = Append(@, v),
                                  !.made = Append(@, Len(after) - Len(codec.buffer))]
    /\ UNCHANGED <<progVars, socks, backlog, budget, ncid, nsend, wire, sent,
                   closes, rcvd, filled, lastCast, wres, tally, fork>>

\* CsDtReadBuffer(buffer.size(), buffer.data())
CodecOpen ==
    /\ ~codec.reading
    /\ codec.wrote # <<>>
    /\ codec' = [codec EXCEPT !.reading = TRUE, !.left = codec.buffer]
    /\ UNCHANGED <<progVars, socks, backlog, budget, ncid, nsend, wire, sent,
                   closes, rcvd, filled, lastCast, wres, tally, fork>>

\* packet.read(value), with a value of the type that was written
CodecRead ==
    /\ codec.reading
    /\ Len(codec.got) < Len(codec.wrote)
    /\ LET kind == codec.wrote[Len(codec.got) + 1].kind
           read == IF kind = "int" THEN ReadInt(codec.left) ELSE ReadString(codec.left)
       IN  codec' = [codec EXCEPT
                        !.left = read.rest,
                        !.got = Append(@, [kind |-> kind, ok |-> read.ok,
                                           value |-> read.value]),
                        !.used = Append(@, Len(codec.left) - Len(read.rest))]
    /\ UNCHANGED <<progVars, socks, backlog, budget, ncid, nsend, wire, sent,
                   closes, rcvd, filled, lastCast, wres, tally, fork>>

CodecInit ==
    InitWith([accepts |-> 0, frames |-> 0, closes |-> 0, resets |-> 0, stalls |-> 0,
              spurious |-> 0, shortReads |-> 0, writeErrors |-> 0,
              acceptErrors |-> 0, fcntlErrors |-> 0])

CodecNext ==
    \/ \E n \in CodecInts : CodecWrite(IntValue(n))
    \/ \E str \in CodecStrings : CodecWrite(StringValue(str))
    \/ CodecOpen
    \/ CodecRead

CodecSpec == CodecInit /\ [][CodecNext]_vars

(***************************************************************************)
(* The accept path: three clients that connect, send their name and chat,  *)
(* and close, while accept() and fcntl() may fail.                         *)
(***************************************************************************)
AcceptConnects == 3
AcceptFrames == 3
AcceptCloses == 2
AcceptErrors == 1
FcntlErrors == 1

AcceptInit ==
    InitWith([accepts |-> AcceptConnects, frames |-> AcceptFrames,
              closes |-> AcceptCloses, resets |-> 0, stalls |-> 0, spurious |-> 0,
              shortReads |-> 0, writeErrors |-> 0,
              acceptErrors |-> AcceptErrors, fcntlErrors |-> FcntlErrors])

AcceptClient ==
    \/ ClientConnect
    \/ \E fd \in DOMAIN socks :
         \/ \E frame \in Script(fd, {ChatFrame}) : ClientSend(fd, frame)
         \/ ClientClose(fd)

AcceptNext == AcceptClient \/ Server

AcceptSpec == AcceptInit /\ [][AcceptNext]_vars

(***************************************************************************)
(* chatserver_fork.cpp: a child process for every connection, and a parent *)
(* that serves their requests from a shared pipe.                          *)
(***************************************************************************)
\* the descriptors of main(): pipefd[1]; the first client socket; a
\* connection takes its socket and the two ends of its respond pipe
PipeWriteFd == 5
ForkFirstFd == 6
ForkFdStep == 3

\* accept(): the lowest descriptor the parent has free for a client socket
ForkFreeFd ==
    LET fds == {ForkFirstFd + ForkFdStep * k :
                   k \in 0..Cardinality(DOMAIN fork.open)}
    IN  CHOOSE f \in fds : /\ f \notin DOMAIN fork.open
                           /\ \A g \in fds : g < f => g \in DOMAIN fork.open

\* ccb.init(): the semaphores and the respond pipe of a connection, in
\* memory the parent and the child share
NewControl == [socketMutex |-> 1, respondSemaphore |-> 0, respondPipe |-> <<>>]

\* the entry of clientHandlers after ccb.move(): the child (its pid) and no
\* name; and CsRtClientControl(), which clientHandlers[key] inserts: no
\* child, semaphores that were never opened
MovedControl(c) == [cid |-> c, clientName |-> <<>>]
NoControl == [cid |-> 0, clientName |-> <<>>]

\* the child after fork(): a new handler, nothing to do yet
NewChild ==
    [pc |-> "next", handler |-> NewHandler, todo |-> <<>>, parts |-> <<>>]

\* the int four bytes of a pipe hold
PipeInt(b) == BytesInt([k \in 1..IntSize |-> b[k] % 256])

\* CsDtOutputStream::write(const std::string&): the write0 calls that write
\* bytes
Written(str) == <<IntBytes(Len(str))>> \o (IF str = <<>> THEN <<>> ELSE <<str>>)

RECURSIVE WrittenAll(_)
WrittenAll(strs) ==
    IF strs = <<>> THEN <<>> ELSE Written(Head(strs)) \o WrittenAll(Tail(strs))

\* what a handler's call of a service has the child do: a request to the
\* parent, or a record written to the client socket
Request(id, text, muted) == [kind |-> "req", id |-> id, text |-> text, muted |-> muted]
Sending(text) == [kind |-> "send", id |-> -1, text |-> text, muted |-> {}]

\* userOnline, broadcast, listOnlineUsers: the writes between beforeRequest
\* and afterRequest
Payload(op) ==
    IF op.id = ipcJoin THEN Written(op.text)
    ELSE IF op.id = ipcBroadcast
    THEN Written(op.text) \o <<IntBytes(Cardinality(op.muted))>>
         \o WrittenAll(SortedNames(op.muted))
    ELSE <<>>

\* send() and the body of the broadcast loop: the writes of one record
RecordParts(text) == <<IntBytes(0)>> \o Written(text)

\* where a child goes on with what it has to do
ChildPc(todo) ==
    IF todo = <<>> THEN "next"
    ELSE IF Head(todo).kind = "req" THEN "hdr" ELSE "slock"

\* the bytes one write() of bytes puts into a pipe that holds pipe: all of
\* them or none when they are at most PipeBuf, else what there is room for
PipeTakes(pipe, bytes) ==
    LET room == PipeCap - Len(pipe)
    IN  IF Len(bytes) <= PipeBuf
        THEN (IF room >= Len(bytes) THEN Len(bytes) ELSE 0)
        ELSE Min(room, Len(bytes))

PipeWritten(bytes) == PipeTakes(fork.pipe, bytes)

\* the write() calls of parts, one after the other until one of them
\* blocks: the pipe, and what is left to write
RECURSIVE PipeFilled(_, _)
PipeFilled(pipe, parts) ==
    IF parts = <<>> THEN [pipe |-> pipe, parts |-> parts]
    ELSE LET bytes == Head(parts)
             n == PipeTakes(pipe, bytes)
         IN  IF n = Len(bytes) THEN PipeFilled(pipe \o bytes, Tail(parts))
             ELSE [pipe |-> pipe \o Slice(bytes, 1, n),
                   parts |-> <<Slice(bytes, n + 1, Len(bytes))>> \o Tail(parts)]

\* a piece of a record written to a client socket: who wrote it, the text
\* of the record, which of its writes it is and whether it is the last;
\* and the value of socketMutex at the write
Chunk(who, text, parts, mutex) ==
    [w |-> who, text |-> text, k |-> Len(RecordParts(text)) - Len(parts) + 1,
     last |-> Len(parts) = 1, m |-> mutex]

(***************************************************************************)
(* The clients of the fork server.                                         *)
(***************************************************************************)
\* the name the clients choose, and the packets they send: "x", a text
\* longer than the pipe, the command "online"
ForkName == <<97>>
LongText == [k \in 1..PipeCap |-> 120]
ForkPackets == {ChatFrame, PacketFrame(0, LongText), PacketFrame(1, CmdOnline)}

\* a client connects, while the parent waits in accept()
ForkConnect ==
    /\ fork.pc = "accept"
    /\ fork.budget.accepts > 0
    /\ fork' = [fork EXCEPT !.backlog = @ + 1, !.budget.accepts = @ - 1]
    /\ UNCHANGED pollVars

\* a client sends its name, and then packets, while its child waits in
\* read()
ForkSend(c) ==
    /\ fork.children[c].pc = "next"
    /\ fork.budget.frames > 0
    /\ fork.socks[c].peer = "open"
    /\ \E frame \in IF fork.socks[c].said = 0 THEN {NameFrame(ForkName)}
                    ELSE ForkPackets :
          fork' = [fork EXCEPT !.socks[c].inbuf = @ \o frame,
                               !.socks[c].said = @ + 1,
                               !.budget.frames = @ - 1]
    /\ UNCHANGED pollVars

\* a client closes its connection, while its child waits in read()
ForkClose(c) ==
    /\ fork.children[c].pc = "next"
    /\ fork.budget.closes > 0
    /\ fork.socks[c].peer = "open"
    /\ fork' = [fork EXCEPT !.socks[c].peer = "closed", !.budget.closes = @ - 1]
    /\ UNCHANGED pollVars

(***************************************************************************)
(* The child: the read loop, and the services the handler calls.           *)
(***************************************************************************)
\* the sizes read(clientSocket, buffer, size) returns here: all the bytes
\* there are of the window, or the first of them only
ForkReadSizes(avail, size) ==
    {Min(avail, size)} \cup (IF fork.budget.shortReads > 0 THEN {1} ELSE {})

\* a handler as the registry of the poll server holds it, for the
\* operators of defaultlogic.cpp
Hosted(h) == (0 :> [handler |-> h, clientName |-> <<>>, cid |-> 0])

\* the loop is left: delete handler announces the leave of a client that
\* has joined, then the child asks to leave
AfterLoop(c) ==
    LET h == fork.children[c].handler
        todo == (IF h.hasJoinedServer
                 THEN <<Request(ipcBroadcast, LeaveText(h.clientName, c),
                                {h.clientName})>>
                 ELSE <<>>)
                \o <<Request(ipcLeave, <<>>, {})>>
    IN  [fork EXCEPT !.children[c].todo = todo, !.children[c].pc = "hdr"]

\* processPacket() in the child: the calls of the services, and how
\* bufferFilled() leaves the handler
Processed(h) ==
    LET id == ReadInt(h.dataBuffer)
        str == ReadString(id.rest)
        ends == [handler |-> [h EXCEPT !.status = stTerminated, !.dataBuffer = <<>>],
                 todo |-> <<>>, pc |-> "next"]
        goes == [h EXCEPT !.status = stPacketSize, !.dataBuffer = <<>>]
    IN  IF ~id.ok \/ id.value \notin {0, 1} \/ ~str.ok THEN ends
        ELSE IF id.value = 0
        THEN [handler |-> goes,
              todo |-> <<Request(ipcBroadcast, ChatText(h.clientName, str.value),
                                 {})>>,
              pc |-> "hdr"]
        ELSE IF SplitHangs(str.value)
        THEN [handler |-> h, todo |-> <<>>, pc |-> "hung"]
        ELSE IF SplitArgs(str.value) = <<>>
        THEN [handler |-> goes, todo |-> <<>>, pc |-> "next"]
        ELSE IF SplitArgs(str.value)[1] = CmdOnline
        THEN [handler |-> goes, todo |-> <<Request(ipcListOnline, <<>>, {})>>,
              pc |-> "hdr"]
        ELSE [handler |-> goes,
              todo |-> <<Sending(CommandReply(SplitArgs(str.value), {}))>>,
              pc |-> "slock"]

\* bufferFilled() after a read() that gave the first k bytes of the window
Filled(c, k, over) ==
    LET ch == fork.children[c]
        h == ch.handler
        s == fork.socks[c]
        bytes == Slice(s.inbuf, 1, k)
        short == k < Min(Len(s.inbuf), NextSize(h))
        h1 == IF h.status \in {stNameSize, stPacketSize}
              THEN [h EXCEPT !.dataSize = Overwrite(@, 0, bytes)]
              ELSE [h EXCEPT !.dataBuffer = Overwrite(@, 0, bytes)]
        sized == IF h.status = stNameSize THEN FilledNameSize(Hosted(h1), 0)
                 ELSE FilledPacketSize(Hosted(h1), 0)
        name == NameOf(h1.dataBuffer, over)
        after ==
            IF h.status = stPacketSize /\ DataSize(h1) > MaxWindow
            THEN [handler |-> h1, todo |-> <<>>, pc |-> "far"]
            ELSE IF h.status \in {stNameSize, stPacketSize}
            THEN [handler |-> sized.handler, todo |-> <<>>,
                  pc |-> IF sized.fate = "ok" THEN "next" ELSE sized.fate]
            ELSE IF h.status = stNameBuffer
            THEN [handler |-> [h1 EXCEPT !.clientName = name, !.dataBuffer = <<>>],
                  todo |-> <<Request(ipcJoin, name, {})>>, pc |-> "hdr"]
            ELSE Processed(h1)
    IN  [fork EXCEPT
            !.socks[c].inbuf = Slice(@, k + 1, Len(@)),
            !.budget.shortReads = IF short THEN @ - 1 ELSE @,
            !.filled[c] = Append(@, [size |-> NextSize(h), got |-> k]),
            !.children[c] = [ch EXCEPT !.handler = after.handler,
                                       !.todo = after.todo, !.pc = after.pc]]

\* one turn of the read loop: next(), read(), bufferFilled()
ChildRead(c) ==
    LET h == fork.children[c].handler
        s == fork.socks[c]
    IN  /\ fork.children[c].pc = "next"
        /\ IF NextSize(h) <= 0 \/ (s.inbuf = <<>> /\ s.peer = "closed")
           THEN fork' = AfterLoop(c)
           ELSE /\ s.inbuf # <<>>
                /\ \E k \in ForkReadSizes(Len(s.inbuf), NextSize(h)) :
                      \E over \in (IF h.status = stNameBuffer THEN OverRead
                                   ELSE {<<>>}) :
                         fork' = Filled(c, k, over)
        /\ UNCHANGED pollVars

\* CsRtSemaphore::wait() returns, and tryWait() gives true, when the value
\* is positive
SemOpen(value) == value > 0

\* beforeRequest: pipe.write(clientSocket.fd)
ChildHeader(c) ==
    LET ch == fork.children[c]
        op == Head(ch.todo)
    IN  /\ ch.pc = "hdr"
        /\ PipeWritten(IntBytes(fork.socks[c].fd)) > 0
        /\ fork' = [fork EXCEPT
                       !.pipe = @ \o IntBytes(fork.socks[c].fd),
                       !.issued[c] = Append(@, [id |-> op.id, text |-> op.text,
                                                muted |-> op.muted]),
                       !.children[c].pc = "id"]
        /\ UNCHANGED pollVars

\* beforeRequest: pipe.write(requestId)
ChildRequestId(c) ==
    LET ch == fork.children[c]
    IN  /\ ch.pc = "id"
        /\ PipeWritten(IntBytes(Head(ch.todo).id)) > 0
        /\ fork' = [fork EXCEPT !.pipe = @ \o IntBytes(Head(ch.todo).id),
                                !.children[c].pc = "lock"]
        /\ UNCHANGED pollVars

\* beforeRequest: rtshm.pipeMutex.wait()
ChildLock(c) ==
    LET ch == fork.children[c]
    IN  /\ ch.pc = "lock"
        /\ SemOpen(fork.pipeMutex)
        /\ fork' = [fork EXCEPT !.pipeMutex = @ - 1,
                                !.children[c].parts = Payload(Head(ch.todo)),
                                !.children[c].pc = "body"]
        /\ UNCHANGED pollVars

\* the writes of the data of the request, until one blocks; after the last,
\* afterRequest: pipeMutex.post(), pipeSemaphore.post()
ChildBody(c) ==
    LET ch == fork.children[c]
        w == PipeFilled(fork.pipe, ch.parts)
    IN  /\ ch.pc = "body"
        /\ ch.parts = <<>> \/ w.pipe # fork.pipe
        /\ fork' = IF w.parts = <<>>
                   THEN [fork EXCEPT !.pipe = w.pipe,
                                     !.pipeMutex = @ + 1,
                                     !.pipeSemaphore = @ + 1,
                                     !.children[c].parts = <<>>,
                                     !.children[c].pc = "await"]
                   ELSE [fork EXCEPT !.pipe = w.pipe,
                                     !.children[c].parts = w.parts]
        /\ UNCHANGED pollVars

\* afterRequest: tryWait() fails, kill(parentPid, SIGUSR1); the signal
\* waits for the parent when the parent is in accept(), and at any other
\* place it is blocked, and delivered to the empty handler before the next
\* accept()
ChildSignal(c) ==
    /\ fork.children[c].pc = "await"
    /\ ~SemOpen(fork.control[c].respondSemaphore)
    /\ fork' = [fork EXCEPT !.sig = (fork.pc = "accept")]
    /\ UNCHANGED pollVars

\* afterRequest: tryWait() succeeds; the child goes on reading the respond
\* pipe, with its next call, or to exit(0)
ChildAcked(c) ==
    LET ch == fork.children[c]
        op == Head(ch.todo)
    IN  /\ ch.pc = "await"
        /\ SemOpen(fork.control[c].respondSemaphore)
        /\ fork' = [fork EXCEPT
                       !.control[c].respondSemaphore = @ - 1,
                       !.children[c].todo =
                           IF op.id \in {ipcJoin, ipcListOnline} THEN @ ELSE Tail(@),
                       !.children[c].pc =
                           IF op.id \in {ipcJoin, ipcListOnline} THEN "resp"
                           ELSE IF op.id = ipcLeave THEN "done"
                           ELSE ChildPc(Tail(ch.todo))]
        /\ UNCHANGED pollVars

\* userOnline: respondPipe.read(result), and what the handler does with it
ChildJoined(c) ==
    LET ch == fork.children[c]
        h == ch.handler
        rp == fork.control[c].respondPipe
        ok == PipeInt(rp) = 0
    IN  /\ ch.pc = "resp"
        /\ Head(ch.todo).id = ipcJoin
        /\ Len(rp) >= IntSize
        /\ fork' = [fork EXCEPT
                       !.control[c].respondPipe = Slice(rp, IntSize + 1, Len(rp)),
                       !.children[c].handler =
                           IF ok THEN [h EXCEPT !.hasJoinedServer = TRUE,
                                                !.status = stPacketSize]
                           ELSE [h EXCEPT !.status = stTerminated],
                       !.children[c].todo =
                           IF ok
                           THEN <<Sending(WelcomeText(h.clientName)),
                                  Request(ipcBroadcast, JoinText(h.clientName, c),
                                          {h.clientName})>>
                           ELSE <<Sending(SorryText(h.clientName))>>,
                       !.children[c].pc = "slock"]
        /\ UNCHANGED pollVars

\* listOnlineUsers: the names read from the bytes of the respond pipe, n
\* more to read; not ok while the pipe does not hold them all
RECURSIVE Listed(_, _, _)
Listed(bytes, n, names) ==
    IF n <= 0 THEN [ok |-> TRUE, names |-> names, rest |-> bytes]
    ELSE IF Len(bytes) < IntSize THEN [ok |-> FALSE, names |-> names, rest |-> bytes]
    ELSE LET len == PipeInt(bytes)
             rest == Slice(bytes, IntSize + 1, Len(bytes))
         IN  IF len < 0 THEN Listed(rest, n - 1, names \cup {<<>>})
             ELSE IF Len(rest) < len
             THEN [ok |-> FALSE, names |-> names, rest |-> bytes]
             ELSE Listed(Slice(rest, len + 1, Len(rest)), n - 1,
                         names \cup {CStr(Slice(rest, 1, len))})

\* listOnlineUsers: respondPipe.read(numUsersOnline) and the names, and
\* the reply processCommand sends
ChildListed(c) ==
    LET ch == fork.children[c]
        rp == fork.control[c].respondPipe
        got == Listed(Slice(rp, IntSize + 1, Len(rp)), PipeInt(rp), {})
    IN  /\ ch.pc = "resp"
        /\ Head(ch.todo).id = ipcListOnline
        /\ Len(rp) >= IntSize
        /\ got.ok
        /\ fork' = [fork EXCEPT
                       !.control[c].respondPipe = got.rest,
                       !.children[c].todo = <<Sending(OnlineText(got.names))>>,
                       !.children[c].pc = "slock"]
        /\ UNCHANGED pollVars

\* a socketMutex that is never waited for
SocketFreeAlways(c) == TRUE

\* socketMutex.wait() of connection c returns
SocketFree(c) == SemOpen(fork.control[c].socketMutex)

\* send(): ccb.socketMutex.wait()
ChildLocks(c) ==
    LET ch == fork.children[c]
    IN  /\ ch.pc = "slock"
        /\ SocketFree(c)
        /\ fork' = [fork EXCEPT
                       !.control[c].socketMutex = @ - 1,
                       !.children[c].parts = RecordParts(Head(ch.todo).text),
                       !.children[c].pc = "swrite"]
        /\ UNCHANGED pollVars

\* send(): one write to the client socket, and socketMutex.post() after the
\* last
ChildWrites(c) ==
    LET ch == fork.children[c]
        done == Len(ch.parts) = 1
    IN  /\ ch.pc = "swrite"
        /\ fork' = [fork EXCEPT
                       !.wire[c] = Append(@, Chunk("child", Head(ch.todo).text,
                                                   ch.parts,
                                                   fork.control[c].socketMutex)),
                       !.control[c].socketMutex = IF done THEN @ + 1 ELSE @,
                       !.children[c].parts = Tail(@),
                       !.children[c].todo = IF done THEN Tail(@) ELSE @,
                       !.children[c].pc =
                           IF done THEN ChildPc(Tail(ch.todo)) ELSE "swrite"]
        /\ UNCHANGED pollVars

(***************************************************************************)
(* The parent: accept(), and the loop that serves the requests.            *)
(***************************************************************************)
\* what a call on a semaphore that was never opened (semObj is MAP_FAILED),
\* or waitpid() with a pid that was never set, may do: return, or end or
\* stop the parent
Lucks == {"goes", "stops"}

\* accept() gives a socket: ccb.init(), fork(); the parent keeps the control
\* block under the socket's descriptor. A SIGUSR1 that came meanwhile is
\* delivered to the empty handler
ParentAccept ==
    LET c == Len(fork.children) + 1
        fd == ForkFreeFd
    IN  /\ fork.pc = "accept"
        /\ fork.backlog > 0
        /\ fork' = [fork EXCEPT
                       !.backlog = @ - 1,
                       !.children = Append(@, NewChild),
                       !.control = Append(@, NewControl),
                       !.socks = Append(@, [fd |-> fd, said |-> 0, inbuf |-> <<>>,
                                            peer |-> "open"]),
                       !.open = (fd :> c) @@ @,
                       !.clientHandlers = (fd :> MovedControl(c)) @@ @,
                       !.issued = Append(@, <<>>),
                       !.filled = Append(@, <<>>),
                       !.wire = Append(@, <<>>),
                       !.sig = FALSE,
                       !.pc = "trywait"]
        /\ UNCHANGED pollVars

\* accept() is interrupted by SIGUSR1
ParentInterrupted ==
    /\ fork.pc = "accept"
    /\ fork.sig
    /\ fork' = [fork EXCEPT !.sig = FALSE, !.pc = "trywait"]
    /\ UNCHANGED pollVars

\* while(rtshm.pipeSemaphore.tryWait()); when it fails the parent unblocks
\* SIGUSR1 and calls accept()
ParentTryWait ==
    /\ fork.pc = "trywait"
    /\ fork' = IF SemOpen(fork.pipeSemaphore)
               THEN [fork EXCEPT !.pipeSemaphore = @ - 1, !.pc = "conn",
                                 !.want = IntSize, !.acc = <<>>, !.req = NoRequest]
               ELSE [fork EXCEPT !.pc = "accept"]
    /\ UNCHANGED pollVars

\* the parent's entry for a descriptor is one that accept() made
Served(f, conn) ==
    conn \in DOMAIN f.clientHandlers /\ f.clientHandlers[conn].cid # 0

\* the history of the requests as the parent reads them
Parsing(f, conn, id) ==
    Append(f.parsed,
           [conn |-> conn,
            cid |-> IF Served(f, conn) THEN f.clientHandlers[conn].cid ELSE 0,
            id |-> id, text |-> <<>>, muted |-> {}, done |-> FALSE])

ParsedAll(f, text, muted) ==
    [f.parsed EXCEPT ![Len(f.parsed)] =
        [@ EXCEPT !.text = text, !.muted = muted, !.done = TRUE]]

\* respondPipe.write of bytes, to the respond pipe of ccb
Responded(f, bytes) ==
    IF Served(f, f.req.conn)
    THEN [f.control EXCEPT ![f.clientHandlers[f.req.conn].cid].respondPipe =
                               @ \o bytes]
    ELSE f.control

\* case ipcListOnline: the number of names, and the names
OnlineBytes(names) ==
    IntBytes(Cardinality(names))
    \o Flatten([k \in 1..Cardinality(names) |->
                   WriteString(<<>>, SortedNames(names)[k])])

\* case ipcJoin, once requestedName is read
JoinServed(f, name) ==
    LET taken == name \in f.nameSet
    IN  [f EXCEPT
            !.nameSet = IF taken THEN @ ELSE @ \cup {name},
            !.clientHandlers[f.req.conn].clientName = IF taken THEN @ ELSE name,
            !.control = Responded(f, IntBytes(IF taken THEN 1 ELSE 0)),
            !.parsed = ParsedAll(f, name, {}),
            !.pc = "trywait"]

\* case ipcBroadcast, once the message and the ignored set are read: the
\* entries of clientHandlers the loop writes to
CastTargets(handlers, ignored) ==
    SelectSeq(SortedFds(DOMAIN handlers),
              LAMBDA fd : handlers[fd].clientName \notin ignored)

CastStarted(f) ==
    LET targets == CastTargets(f.clientHandlers, f.req.ignored)
    IN  [f EXCEPT
            !.targets = targets,
            !.casts = Append(@, [text |-> f.req.message, muted |-> f.req.ignored,
                                 names |-> [fd \in DOMAIN f.clientHandlers |->
                                               f.clientHandlers[fd].clientName],
                                 cids |-> [fd \in DOMAIN f.clientHandlers |->
                                              f.clientHandlers[fd].cid],
                                 targets |-> targets]),
            !.parsed = ParsedAll(f, f.req.message, f.req.ignored),
            !.pc = IF targets = <<>> THEN "trywait" ELSE "clock"]

\* pipeReadEnd.read(std::string&) is done, with str read (or left as it was)
StringRead(f, str) ==
    IF f.pc \in {"msglen", "msgdata"}
    THEN [f EXCEPT !.req.message = str, !.pc = "mutedsize", !.want = IntSize]
    ELSE IF f.pc \in {"namelen", "namedata"}
    THEN JoinServed(f, str)
    ELSE LET g == [f EXCEPT !.req.user = str, !.req.ignored = @ \cup {str},
                            !.req.left = @ - 1]
         IN  IF g.req.left > 0 THEN [g EXCEPT !.pc = "userlen", !.want = IntSize]
             ELSE CastStarted(g)

\* the parent has read all the bytes of what it reads: the connection, the
\* request, a length, the data of a string
Got(f, bytes, luck) ==
    LET n == PipeInt(bytes)
    IN  IF f.pc = "conn"
        THEN LET g == [f EXCEPT
                          !.req.conn = n,
                          !.clientHandlers =
                              IF n \in DOMAIN @ THEN @ ELSE (n :> NoControl) @@ @,
                          !.want = IntSize]
             IN  IF Served(f, n)
                 THEN [g EXCEPT !.control[f.clientHandlers[n].cid].respondSemaphore
                                   = @ + 1,
                                !.pc = "reqid"]
                 ELSE [g EXCEPT !.pc = IF luck = "goes" THEN "reqid" ELSE "crashed"]
        ELSE IF f.pc = "reqid"
        THEN LET g == [f EXCEPT !.req.id = n, !.parsed = Parsing(f, f.req.conn, n),
                                !.want = IntSize]
             IN  IF n = ipcBroadcast THEN [g EXCEPT !.pc = "msglen"]
                 ELSE IF n = ipcJoin THEN [g EXCEPT !.pc = "namelen"]
                 ELSE IF n = ipcListOnline
                 THEN [g EXCEPT !.control = Responded(g, OnlineBytes(g.nameSet)),
                                !.parsed = ParsedAll(g, <<>>, {}),
                                !.pc = "trywait"]
                 ELSE IF n = ipcLeave
                 THEN [g EXCEPT !.parsed = ParsedAll(g, <<>>, {}), !.pc = "waitpid"]
                 ELSE [g EXCEPT !.parsed = ParsedAll(g, <<>>, {}), !.pc = "trywait"]
        ELSE IF f.pc = "mutedsize"
        THEN IF n > 0 THEN [f EXCEPT !.req.left = n, !.pc = "userlen",
                                     !.want = IntSize]
             ELSE CastStarted(f)
        ELSE IF f.pc \in {"msglen", "namelen", "userlen"}
        THEN IF n > 0
             THEN [f EXCEPT !.want = n,
                            !.pc = IF f.pc = "msglen" THEN "msgdata"
                                   ELSE IF f.pc = "namelen" THEN "namedata"
                                   ELSE "userdata"]
             ELSE StringRead(f, IF n = 0 \/ f.pc # "userlen" THEN <<>>
                                ELSE f.req.user)
        ELSE StringRead(f, CStr(bytes))

\* where the parent reads the shared pipe
Reading ==
    {"conn", "reqid", "msglen", "msgdata", "mutedsize", "userlen", "userdata",
     "namelen", "namedata"}

\* the read() calls of pipeReadEnd.read0, and what the parent does with the
\* bytes, until a read() blocks or the request is read
RECURSIVE Fed(_, _)
Fed(f, luck) ==
    IF f.pc \notin Reading \/ f.pipe = <<>> THEN f
    ELSE LET n == Min(f.want - Len(f.acc), Len(f.pipe))
             bytes == f.acc \o Slice(f.pipe, 1, n)
             g == [f EXCEPT !.pipe = Slice(@, n + 1, Len(@)), !.acc = <<>>]
         IN  IF Len(bytes) < f.want THEN [g EXCEPT !.acc = bytes]
             ELSE Fed(Got(g, bytes, luck), luck)

ParentRead ==
    /\ fork.pc \in Reading
    /\ fork.pipe # <<>>
    /\ \E luck \in Lucks : fork' = Fed(fork, luck)
    /\ UNCHANGED pollVars

\* the broadcast loop: broadcastHandler.second.socketMutex.wait()
ParentLocks ==
    LET t == Head(fork.targets)
        c == fork.clientHandlers[t].cid
        f == [fork EXCEPT !.parts = RecordParts(fork.req.message), !.pc = "cwrite"]
    IN  /\ fork.pc = "clock"
        /\ IF c # 0
           THEN /\ SocketFree(c)
                /\ fork' = [f EXCEPT !.control[c].socketMutex = @ - 1]
           ELSE \E luck \in Lucks :
                   fork' = IF luck = "goes" THEN f ELSE [fork EXCEPT !.pc = "crashed"]
        /\ UNCHANGED pollVars

\* the broadcast loop: one write to the descriptor the entry is kept under,
\* and socketMutex.post() after the last
ParentWrites ==
    LET t == Head(fork.targets)
        c == fork.clientHandlers[t].cid
        done == Len(fork.parts) = 1
        f == [fork EXCEPT
                 !.parts = Tail(@),
                 !.targets = IF done THEN Tail(@) ELSE @,
                 !.pc = IF ~done THEN "cwrite"
                        ELSE IF Tail(fork.targets) = <<>> THEN "trywait"
                        ELSE "clock"]
    IN  /\ fork.pc = "cwrite"
        /\ IF c # 0
           THEN fork' = [f EXCEPT
                            !.wire[c] = Append(@, Chunk("parent", fork.req.message,
                                                        fork.parts,
                                                        fork.control[c].socketMutex)),
                            !.control[c].socketMutex = IF done THEN @ + 1 ELSE @]
           ELSE IF t = PipeWriteFd
           THEN /\ PipeCap - Len(fork.pipe) >= Len(Head(fork.parts))
                /\ fork' = [f EXCEPT !.pipe = @ \o Head(fork.parts)]
           ELSE fork' = f
        /\ UNCHANGED pollVars

\* case ipcLeave: waitpid(ccb.pid), then the name and the control block are
\* erased and the connection is closed
ParentReaps ==
    LET conn == fork.req.conn
        e == fork.clientHandlers[conn]
        f == [fork EXCEPT !.nameSet = @ \ {e.clientName},
                          !.clientHandlers = Without(@, conn),
                          !.open = Without(@, conn),
                          !.pc = "trywait"]
    IN  /\ fork.pc = "waitpid"
        /\ IF e.cid # 0
           THEN /\ fork.children[e.cid].pc = "done"
                /\ fork' = f
           ELSE \E luck \in Lucks :
                   fork' = IF luck = "goes" THEN f ELSE [fork EXCEPT !.pc = "hung"]
        /\ UNCHANGED pollVars

(***************************************************************************)
(* The fork server with its clients.                                       *)
(***************************************************************************)
ForkInit ==
    InitWith([accepts |-> 0, frames |-> 0, closes |-> 0, resets |-> 0, stalls |-> 0,
              spurious |-> 0, shortReads |-> 0, writeErrors |-> 0,
              acceptErrors |-> 0, fcntlErrors |-> 0])

ForkClient ==
    \/ ForkConnect
    \/ \E c \in 1..Len(fork.socks) : ForkSend(c) \/ ForkClose(c)

Child(c) ==
    \/ ChildRead(c)
    \/ ChildHeader(c)
    \/ ChildRequestId(c)
    \/ ChildLock(c)
    \/ ChildBody(c)
    \/ ChildSignal(c)
    \/ ChildAcked(c)
    \/ ChildJoined(c)
    \/ ChildListed(c)
    \/ ChildLocks(c)
    \/ ChildWrites(c)

Parent ==
    \/ ParentAccept
    \/ ParentInterrupted
    \/ ParentTryWait
    \/ ParentRead
    \/ ParentLocks
    \/ ParentWrites
    \/ ParentReaps

ForkNext ==
    \/ ForkClient
    \/ \E c \in 1..Len(fork.children) : Child(c)
    \/ Parent

ForkSpec == ForkInit /\ [][ForkNext]_vars

(***************************************************************************)
(* Properties of the registry.                                             *)
(***************************************************************************)
\* the connections whose handler has completed the name handshake
Registered == {fd \in DOMAIN clientServices :
                 clientServices[fd].handler.status \in {stPacketSize, stPacketData}}

\* C1: just before poll() is called, the taken names are exactly the
\* clientName values of the connections in the registry that have completed
\* the name handshake.
C1_TakenNamesAreRegistered ==
    pc = "poll" =>
        clientNameSet = {clientServices[fd].clientName : fd \in Registered}

\* the case of C1: a handshake with a name that starts with a NUL byte has
\* completed, and the connection is in the registry at the loop boundary
C1_NulNameRegistered ==
    /\ pc = "poll"
    /\ \E fd \in Registered :
         /\ clientServices[fd].clientName = <<>>
         /\ <<>> \in clientNameSet

\* C2: no two connections that are in the registry together hold the same
\* registered name, and every name held is in the taken-names set.
C2_RegisteredNamesUnique ==
    \A f \in DOMAIN clientServices :
        clientServices[f].handler.hasJoinedServer =>
            /\ clientServices[f].handler.clientName \in clientNameSet
            /\ \A g \in DOMAIN clientServices \ {f} :
                 clientServices[g].handler.hasJoinedServer =>
                    clientServices[g].handler.clientName
                        # clientServices[f].handler.clientName

\* the case of C2: a connection holds a name, and another connection's
\* handshake with that same name has been refused
C2_SecondHolderRefused ==
    \E f, g \in DOMAIN clientServices :
        /\ f # g
        /\ clientServices[f].handler.hasJoinedServer
        /\ ~clientServices[g].handler.hasJoinedServer
        /\ clientServices[g].handler.status = stTerminated
        /\ clientServices[g].handler.clientName = clientServices[f].handler.clientName

\* C3: when the sweep removes a killed connection, its socket has been
\* closed exactly once, the name it registered is not in the taken-names set
\* any more, and neither the registry nor the poll array has an entry for it.
C3_TeardownLeavesNothing ==
    [][\A fd \in DOMAIN clientServices :
          (fd \notin DOMAIN clientServices' \/
           clientServices'[fd].cid # clientServices[fd].cid) =>
             /\ closes'[clientServices[fd].cid] = 1
             /\ fd \notin DOMAIN socks'
             /\ fd \notin {polls'[k].fd : k \in 2..Len(polls')}
             /\ fd \notin DOMAIN clientServices'
             /\ clientServices[fd].handler.hasJoinedServer =>
                  clientServices[fd].handler.clientName \notin clientNameSet']_vars

\* the case of C3: two connections are killed in one iteration, and the
\* one removed is the last entry of the poll array
C3_LastOfTwoKilled ==
    /\ pc = "sweep"
    /\ Cardinality(killedService) = 2
    /\ idx = Len(polls) - 1
    /\ PollAt(idx).fd \in killedService

\* C5: broadcast(message, mutedUsers) calls send() on no connection whose
\* clientName is in mutedUsers, on no connection whose clientName is empty,
\* and exactly once on every other connection in the registry.
C5_BroadcastTargets ==
    lastCast # <<>> =>
        \A fd \in DOMAIN lastCast[1].names :
            Cardinality({k \in 1..Len(lastCast[1].targets) :
                            lastCast[1].targets[k] = fd})
              = IF \/ lastCast[1].names[fd] = <<>>
                   \/ lastCast[1].names[fd] \in lastCast[1].muted
                THEN 0 ELSE 1

\* the case of C5: a broadcast with a muted connection and a connection it
\* reaches
C5_MutedAndReached ==
    /\ lastCast # <<>>
    /\ lastCast[1].targets # <<>>
    /\ \E fd \in DOMAIN lastCast[1].names :
         lastCast[1].names[fd] \in lastCast[1].muted

\* a handshake on fd ends in this step with the name refused
Refused(fd) ==
    /\ clientServices[fd].handler.status = stNameBuffer
    /\ fd \in DOMAIN clientServices'
    /\ clientServices'[fd].handler.status = stTerminated

Expected(c) ==
    Flatten([i \in 1..Len(sent[c]) |-> TaggedBuffer(sent[c][i].ser, sent[c][i].text)])

\* s is the beginning of t
IsPrefix(s, t) == Len(s) <= Len(t) /\ s = SubSeq(t, 1, Len(s))

\* no write() on the socket of connection c has failed, other than with
\* EWOULDBLOCK
NoWriteError(c) == wres[c] \subseteq {"partial", "EWOULDBLOCK"}

\* C4: when send() was called for a before b on one connection, a byte of b
\* is on the wire only behind every byte of a.
C4_SendOrderOnWire ==
    \A c \in 1..ncid :
      \A ia, ib \in 1..Len(sent[c]) :
        ia < ib =>
          \A j \in 1..Len(wire[c]) :
            wire[c][j].m = sent[c][ib].ser =>
              \A k \in 0..(Len(SendBuffer(sent[c][ia].text)) - 1) :
                \E i \in 1..(j - 1) :
                  wire[c][i].m = sent[c][ia].ser /\ wire[c][i].k = k

\* the case of C4: a connection has the bytes of two send() calls on the
\* wire, after a partial write and a write that would block
C4_TwoMessagesAfterPartialWrite ==
    \E c \in 1..ncid :
      /\ {"partial", "EWOULDBLOCK"} \subseteq wres[c]
      /\ Len(sent[c]) >= 2
      /\ \E j \in 1..Len(wire[c]) : wire[c][j].m = sent[c][2].ser

\* C7: as long as no write() on a recipient's socket has failed other than
\* with EWOULDBLOCK, what is on the wire is the beginning of what the send()
\* calls for it made, byte for byte and in their order, and all of it each
\* time the server is back at poll().
C7_SlowRecipientGetsAll ==
    \A c \in 1..ncid :
      NoWriteError(c) =>
        /\ IsPrefix(wire[c], Expected(c))
        /\ pc = "poll" => wire[c] = Expected(c)

\* the case of C7: a recipient whose socket reported would-block has been
\* sent a chat message, and the server is back at poll()
C7_ChatDeliveredAfterWouldBlock ==
    /\ pc = "poll"
    /\ \E c \in 1..ncid :
         /\ "EWOULDBLOCK" \in wres[c]
         /\ NoWriteError(c)
         /\ \E i \in 1..Len(sent[c]) : sent[c][i].text[1] = TxtOpen
         /\ wire[c] = Expected(c)

(***************************************************************************)
(* Properties of the receive path.                                         *)
(***************************************************************************)
\* the windows handed to bufferFilled() for connection c put together
Windows(c) == Flatten([i \in 1..Len(filled[c]) |-> filled[c][i].win])

\* the control blocks of connection c in the registry (one or none)
Live(c) == {fd \in DOMAIN clientServices : clientServices[fd].cid = c}

\* C6: however the reads cut the byte stream of a connection, the windows
\* handed to bufferFilled() are the stream cut at the sizes next() announced:
\* 4 bytes in the size states, then as many bytes as those 4 say; the states
\* follow each other as with whole windows; and what is read behind the last
\* window is shorter than the window announced.
C6_WindowsCutTheStream ==
    \A c \in 1..ncid :
      /\ \A i \in 1..Len(filled[c]) :
           /\ filled[c][i].st = IF i = 1 THEN stNameSize
                                ELSE IF i = 2 THEN stNameBuffer
                                ELSE IF i % 2 = 1 THEN stPacketSize
                                ELSE stPacketData
           /\ Len(filled[c][i].win) = IF i % 2 = 1 THEN IntSize
                                      ELSE BytesInt(filled[c][i - 1].win)
      /\ IsPrefix(Windows(c), rcvd[c])
      /\ \A fd \in Live(c) :
           /\ clientServices[fd].readPointer = Len(rcvd[c]) - Len(Windows(c))
           /\ clientServices[fd].handler.status # stTerminated =>
                clientServices[fd].readPointer < NextSize(clientServices[fd].handler)

\* the case of C6: a connection past its handshake has had one byte of a
\* window read
C6_OneByteRead ==
    \E fd \in DOMAIN clientServices :
      /\ clientServices[fd].handler.status = stPacketSize
      /\ clientServices[fd].readPointer = 1
      /\ Len(filled[clientServices[fd].cid]) >= 2

(***************************************************************************)
(* Properties of the running server.                                       *)
(***************************************************************************)
\* C8: a nextSend() in progress returns.
C8_NextSendReturns == (pc = "send") ~> (pc # "send")

\* the case of C8: a write() in nextSend() has reported would-block and is
\* tried again
C8_WriteTriedAgain == pc = "send" /\ spins > 0

\* bytes of connection c wait to be read
Unread(c) == \E fd \in DOMAIN socks : socks[fd].cid = c /\ socks[fd].inbuf # <<>>

\* C9: the bytes a connection has waiting are read in the end, whatever the
\* other clients send and however slowly they read.
C9_ReadableIsServed == \A c \in 1..MaxAccept : Unread(c) ~> ~Unread(c)

\* the case of C9: a connection has bytes waiting while the server tries a
\* write on the socket of another one again
C9_UnreadBehindSlowClient ==
    \E fd \in DOMAIN socks :
      /\ Spinning(fd)
      /\ \E c \in 1..ncid : c # socks[fd].cid /\ Unread(c)

(***************************************************************************)
(* Properties of the handshake.                                            *)
(***************************************************************************)
\* the last window handed to bufferFilled() for connection c, after the step
LastFilled(c) == filled'[c][Len(filled'[c])]

\* in this step the four bytes of the name length of fd are handed to
\* bufferFilled()
NameLengthFilled(fd) ==
    /\ clientServices[fd].handler.status = stNameSize
    /\ Len(filled'[clientServices[fd].cid]) = Len(filled[clientServices[fd].cid]) + 1

\* C11: once the name length L is read, the session awaits the name bytes
\* if and only if 0 < L < 64, and is terminated for every other L.
C11_NameLengthDecides ==
    [][\A fd \in DOMAIN clientServices :
          NameLengthFilled(fd) =>
             LET L == BytesInt(LastFilled(clientServices[fd].cid).win)
                 status == clientServices'[fd].handler.status
             IN  /\ pc' # "crashed"
                 /\ status = IF 0 < L /\ L < 64 THEN stNameBuffer
                             ELSE stTerminated]_vars

\* the case of C11: a name length below zero has been read
C11_NegativeLengthRead ==
    \E fd \in DOMAIN clientServices :
      /\ Len(filled[clientServices[fd].cid]) = 1
      /\ BytesInt(filled[clientServices[fd].cid][1].win) < 0

\* the name length connection c opened with was 64 or more
Oversized(c) ==
    /\ filled[c] # <<>>
    /\ BytesInt(filled[c][1].win) >= 64

\* the control block of fd is gone after this step
Removed(fd) ==
    \/ fd \notin DOMAIN clientServices'
    \/ clientServices'[fd].cid # clientServices[fd].cid

\* the control blocks other than fd's are after the step what they were,
\* but for their place in the poll array
OthersKept(fd) ==
    \A g \in DOMAIN clientServices \ {fd} :
       /\ g \in DOMAIN clientServices'
       /\ [clientServices'[g] EXCEPT !.pollIndex = 0]
            = [clientServices[g] EXCEPT !.pollIndex = 0]

NameFilled(fd) ==
    /\ clientServices[fd].handler.status = stNameBuffer
    /\ Len(filled'[clientServices[fd].cid]) = Len(filled[clientServices[fd].cid]) + 1

\* the connections in the registry that have registered a name, those that
\* the sweep is about to remove included
Joined == {fd \in DOMAIN clientServices : clientServices[fd].handler.hasJoinedServer}

\* the send() calls the step leaves to be made on fd
SendsTo(fd) == {k \in 1..Len(pending') : pending'[k].fd = fd}

\* C13: a handshake that ends with a name not in the taken names adds the
\* name, sends the welcome to that client and nothing else, sends the join
\* announcement once to every other registered connection and to no
\* connection without a name, and leaves the session waiting for a packet
\* length.
C13_JoinAnnounced ==
    [][\A fd \in DOMAIN clientServices :
          LET name == clientServices'[fd].handler.clientName
              cid == clientServices[fd].cid
          IN  (NameFilled(fd) /\ name \notin clientNameSet) =>
                 /\ clientNameSet' = clientNameSet \cup {name}
                 /\ clientServices'[fd].handler.status = stPacketSize
                 /\ \E k \in 1..Len(pending') :
                      /\ SendsTo(fd) = {k}
                      /\ pending'[k].text = <<TxtWelcome>> \o name \o <<TxtDot>>
                 /\ \A g \in Registered \ {fd} :
                      \E k \in 1..Len(pending') :
                        /\ SendsTo(g) = {k}
                        /\ pending'[k].text = <<TxtNewUser>> \o name
                                               \o <<TxtIpPort(cid), TxtJoined>>
                 /\ \A k \in 1..Len(pending') :
                      pending'[k].fd \in Joined \cup {fd}
                 /\ \A g \in DOMAIN clientServices : Cardinality(SendsTo(g)) <= 1]_vars

\* the case of C13: the welcome of a new user is about to be sent while a
\* connection that registered the empty name is in the registry
C13_JoinBesideEmptyName ==
    /\ pc = "send"
    /\ pending # <<>>
    /\ pending[1].text[1] = TxtWelcome
    /\ \E g \in Registered \ {pending[1].fd} : clientServices[g].clientName = <<>>

(***************************************************************************)
(* Properties of the packets.                                              *)
(***************************************************************************)
\* in this step a packet of fd is handed to bufferFilled()
PacketFilled(fd) ==
    /\ clientServices[fd].handler.status = stPacketData
    /\ Len(filled'[clientServices[fd].cid]) = Len(filled[clientServices[fd].cid]) + 1

\* the bytes of a packet hold the id and, behind it, a string as long as its
\* length says
WellFormed(packet, id) ==
    /\ Len(packet) >= 2 * IntSize
    /\ BytesInt(SubSeq(packet, 1, IntSize)) = id
    /\ BytesInt(SubSeq(packet, IntSize + 1, 2 * IntSize)) >= 0
    /\ BytesInt(SubSeq(packet, IntSize + 1, 2 * IntSize)) <= Len(packet) - 2 * IntSize

\* the string of a well-formed packet, as std::string takes it: up to its
\* first NUL
StringOf(packet) ==
    LET len == BytesInt(SubSeq(packet, IntSize + 1, 2 * IntSize))
        chars == SubSeq(packet, 2 * IntSize + 1, 2 * IntSize + len)
    IN  IF \E k \in 1..len : chars[k] = 0
        THEN SubSeq(chars, 1, (CHOOSE k \in 1..len :
                                  chars[k] = 0 /\ \A j \in 1..(k - 1) : chars[j] # 0) - 1)
        ELSE chars

\* C14: a well-formed chat packet leaves "[name] chat" to be sent exactly
\* once to every registered connection, the sender's own included, and to
\* no connection without a name, and the session waits for the next packet
\* length.
C14_ChatReachesAll ==
    [][\A fd \in DOMAIN clientServices :
          LET packet == LastFilled(clientServices[fd].cid).win
              name == clientServices[fd].handler.clientName
          IN  (PacketFilled(fd) /\ WellFormed(packet, 0)) =>
                 /\ clientServices'[fd].handler.status = stPacketSize
                 /\ \A g \in Registered \cup {fd} :
                      \E k \in 1..Len(pending') :
                        /\ SendsTo(g) = {k}
                        /\ pending'[k].text = <<TxtOpen>> \o name \o <<TxtClose>>
                                               \o StringOf(packet)
                 /\ \A k \in 1..Len(pending') : pending'[k].fd \in Joined
                 /\ \A g \in DOMAIN clientServices : Cardinality(SendsTo(g)) <= 1]_vars

\* the case of C14: a connection registered under the empty name has sent a
\* chat packet, and the handler has taken it
C14_ChatFromEmptyName ==
    \E fd \in Registered :
      /\ clientServices[fd].clientName = <<>>
      /\ lastCast # <<>>
      /\ lastCast[1].text = <<TxtOpen, TxtClose, 120>>

(***************************************************************************)
(* Properties of the teardown.                                             *)
(***************************************************************************)
\* in this step the sweep deletes the handler of fd
Destroyed(fd) ==
    /\ pc = "sweep"
    /\ idx < Len(polls)
    /\ PollAt(idx).fd = fd
    /\ fd \in killedService
    /\ pc' = "send" \/ Removed(fd)

\* text is the leave announcement of connection c
IsLeaveOf(text, c) ==
    /\ Len(text) >= 3
    /\ text[1] = TxtUser
    /\ text[Len(text) - 1] = TxtIpPort(c)
    /\ text[Len(text)] = TxtLeft

\* C15: when the sweep tears a registered connection down, whatever it was
\* killed for, the "has left" announcement with its name is left to be sent
\* exactly once to every other registered connection and not to the leaver;
\* over the whole run no connection is sent the leave of another one twice,
\* or its own.
C15_LeaveAnnouncedOnce ==
    /\ [][\A fd \in Joined :
            LET name == clientServices[fd].handler.clientName
                cid == clientServices[fd].cid
            IN  /\ Destroyed(fd) =>
                      /\ \A g \in Registered \ {fd} :
                           \E k \in 1..Len(pending') :
                             /\ SendsTo(g) = {k}
                             /\ pending'[k].text = <<TxtUser>> \o name
                                                    \o <<TxtIpPort(cid), TxtLeft>>
                      /\ SendsTo(fd) = {}
                      /\ \A k \in 1..Len(pending') : pending'[k].fd \in Joined
                      /\ \A g \in DOMAIN clientServices : Cardinality(SendsTo(g)) <= 1
                /\ Removed(fd) => Destroyed(fd) \/ pc = "erase"]_vars
    /\ [](\A c, d \in 1..ncid :
            Cardinality({k \in 1..Len(sent[d]) : IsLeaveOf(sent[d][k].text, c)})
              <= IF c = d THEN 0 ELSE 1)

\* the case of C15: the handler of a registered connection is deleted while
\* a connection registered under the empty name is in the registry
C15_LeaverBesideEmptyName ==
    /\ pc = "sweep"
    /\ idx < Len(polls)
    /\ PollAt(idx).fd \in killedService \cap Joined
    /\ \E g \in Registered \ {PollAt(idx).fd} : clientServices[g].clientName = <<>>

(***************************************************************************)
(* Properties of the commands.                                             *)
(***************************************************************************)
\* the pieces of s between the separators, empty ones included
RECURSIVE Pieces(_, _)
Pieces(s, sep) ==
    IF Find(s, sep) < 0 THEN <<s>>
    ELSE <<SubSeq(s, 1, Find(s, sep))>>
         \o Pieces(SubSeq(s, Find(s, sep) + 2, Len(s)), sep)

NonEmpty(s) == s # <<>>

\* the tokens of a command: its pieces between spaces that are not empty
Tokens(command) == SelectSeq(Pieces(command, Space), NonEmpty)

\* in this step a well-formed command packet of fd is handed to
\* bufferFilled()
CommandFilled(fd) ==
    /\ PacketFilled(fd)
    /\ WellFormed(LastFilled(clientServices[fd].cid).win, 1)

\* the command of the packet handed over in this step
CommandOf(fd) == StringOf(LastFilled(clientServices[fd].cid).win)

\* the step leaves one send() call to be made, of text to fd, and no
\* broadcast
OneReply(fd, text) ==
    /\ Len(pending') = 1
    /\ pending'[1].fd = fd
    /\ pending'[1].text = text
    /\ lastCast' = lastCast

\* text lists the names: "There is/are", their number, "user(s) online: ",
\* the names with ", " between them, "."
Lists(text, names) ==
    LET n == Cardinality(names)
        listed == Pieces(SubSeq(text, 4, Len(text) - 1), TxtComma)
    IN  /\ Len(text) >= 4
        /\ text[1] = IF n > 1 THEN TxtThereAre ELSE TxtThereIs
        /\ text[2] = 48 + n
        /\ text[3] = IF n > 1 THEN TxtUsersOnline ELSE TxtUserOnline
        /\ text[Len(text)] = TxtDot
        /\ Len(listed) = n
        /\ {listed[k] : k \in 1..Len(listed)} = names

C17_UnknownCommandAnswered ==
    [][\A fd \in DOMAIN clientServices :
          LET tokens == Tokens(CommandOf(fd))
          IN  (/\ CommandFilled(fd)
               /\ tokens # <<>>
               /\ tokens[1] \notin {CmdOnline, CmdHelp}) =>
                 /\ pc' = "send"
                 /\ OneReply(fd, <<TxtUnknown>> \o tokens[1] \o <<TxtIssueHelp>>)
                 /\ clientServices'[fd].handler.status = stPacketSize
                 /\ fd \in killedService' <=> fd \in killedService
                 /\ clientServices'[fd].clientName = clientServices[fd].clientName
                 /\ clientNameSet' = clientNameSet
                 /\ clientServices[fd].clientName \in clientNameSet']_vars

\* the case of C17: a command that begins with a space has been handed to
\* the handler
C17_CommandWithLeadingSpace ==
    \E c \in 1..ncid :
      /\ filled[c] # <<>>
      /\ filled[c][Len(filled[c])].st = stPacketData
      /\ WellFormed(filled[c][Len(filled[c])].win, 1)
      /\ StringOf(filled[c][Len(filled[c])].win) # <<>>
      /\ Head(StringOf(filled[c][Len(filled[c])].win)) = Space
      /\ Tokens(StringOf(filled[c][Len(filled[c])].win)) # <<>>

\* C18: whatever the command string, with spaces in front, behind or in a
\* row, the split of a command packet ends, and the arguments it has built
\* are the tokens of the command in their order.
C18_SplitYieldsTokens ==
    [][\A fd \in DOMAIN clientServices :
          CommandFilled(fd) =>
             /\ pc' # "hung"
             /\ LastFilled(clientServices[fd].cid).args = Tokens(CommandOf(fd))]_vars

\* the case of C18: the split has taken the token of a command with two
\* spaces behind it, and goes on
C18_SplitBehindFirstToken ==
    /\ pc = "hung"
    /\ \E c \in 1..ncid :
         /\ filled[c] # <<>>
         /\ filled[c][Len(filled[c])].st = stPacketData
         /\ WellFormed(filled[c][Len(filled[c])].win, 1)
         /\ StringOf(filled[c][Len(filled[c])].win) = <<120, Space, Space>>

(***************************************************************************)
(* Properties of the packets the handler refuses.                          *)
(***************************************************************************)
\* the bytes of a packet are neither a chat nor a command: the id is
\* another one, or the bytes are too few for the id or for the string
Malformed(packet) == ~WellFormed(packet, 0) /\ ~WellFormed(packet, 1)

\* in this step the packet length of fd is handed to bufferFilled()
PacketLengthFilled(fd) ==
    /\ clientServices[fd].handler.status = stPacketSize
    /\ Len(filled'[clientServices[fd].cid]) = Len(filled[clientServices[fd].cid]) + 1

\* the step makes no send() or broadcast() call and leaves the taken names
\* and the other control blocks as they are
Silent(fd) ==
    /\ pending' = <<>>
    /\ lastCast' = lastCast
    /\ clientNameSet' = clientNameSet
    /\ OthersKept(fd)

C20_PacketLengthCapped ==
    [][\A fd \in DOMAIN clientServices :
          LET M == BytesInt(LastFilled(clientServices[fd].cid).win)
          IN  (PacketLengthFilled(fd) /\ (M < 0 \/ M > 1048576)) =>
                 /\ pc' # "crashed"
                 /\ clientServices'[fd].handler.status = stTerminated
                 /\ Len(clientServices'[fd].handler.dataBuffer) # M]_vars

\* the case of C20: a registered connection has sent a packet length below
\* zero, and the handler has been given it
C20_NegativePacketLengthRead ==
    \E fd \in Joined :
      /\ clientServices[fd].handler.status = stPacketData
      /\ DataSize(clientServices[fd].handler) < 0

(***************************************************************************)
(* Properties of the outbound queue.                                       *)
(***************************************************************************)
\* in this step transfer() pops the head chunk of the queue of fd
HeadPopped(fd) ==
    /\ fd \in DOMAIN clientServices'
    /\ clientServices'[fd].cid = clientServices[fd].cid
    /\ Len(clientServices'[fd].outputBuffers) < Len(clientServices[fd].outputBuffers)

\* byte x of a send() call is on the wire of connection c after the step
OnWire(c, x) ==
    \E i \in 1..Len(wire'[c]) : wire'[c][i].m = x.m /\ wire'[c][i].k = x.k

\* C21: each time the server is back at poll(), writePointer is 0 for a
\* connection with an empty queue and below the size of the head chunk for a
\* connection with a queue; and a chunk is popped only when every byte of it
\* has been written to the socket.
C21_QueueKeptInShape ==
    /\ [](pc = "poll" =>
            \A fd \in DOMAIN clientServices :
               LET svc == clientServices[fd]
               IN  /\ Len(svc.outputBuffers) = Len(svc.outputSizes)
                   /\ svc.outputBuffers = <<>> => svc.writePointer = 0
                   /\ svc.outputBuffers # <<>> =>
                         svc.writePointer < Head(svc.outputSizes))
    /\ [][\A fd \in DOMAIN clientServices :
            HeadPopped(fd) =>
               \A j \in 1..Len(Head(clientServices[fd].outputBuffers)) :
                  OnWire(clientServices[fd].cid,
                         Head(clientServices[fd].outputBuffers)[j])]_vars

\* the case of C21: the chunk kept after a partial write and a write error
\* has been popped, and the connection is at the loop boundary with an empty
\* queue
C21_ResidueDrained ==
    /\ pc = "poll"
    /\ \E fd \in DOMAIN clientServices :
         LET svc == clientServices[fd]
         IN  /\ svc.outputBuffers = <<>>
             /\ svc.writePointer = 0
             /\ "partial" \in wres[svc.cid]
             /\ wres[svc.cid] \ {"partial", "EWOULDBLOCK"} # {}
             /\ Len(wire[svc.cid]) = Len(Expected(svc.cid))

(***************************************************************************)
(* Properties of the failures of receive() and transfer().                 *)
(***************************************************************************)
\* in this step receive() is called on fd and returns -1: read() fails or
\* returns 0, or the handler announces a window of size 0 afterwards
ReceiveFails(fd) ==
    /\ AtReadyEntry
    /\ PollAt(idx).fd = fd
    /\ POLLIN \in PollAt(idx).revents
    /\ ReadFails(fd) \/ NextSize(clientServices'[fd].handler) = 0

\* in this step transfer() is called on fd and returns -1: its write()
\* fails with an error other than EWOULDBLOCK
TransferFails(fd) ==
    /\ pc = "xfer"
    /\ PollAt(idx).fd = fd
    /\ POLLOUT \in PollAt(idx).revents
    /\ clientServices[fd].outputBuffers # <<>>
    /\ clientServices[fd].writePointer < Head(clientServices[fd].outputSizes)
    /\ socks[fd].peer = "reset" \/ budget'.writeErrors < budget.writeErrors

\* the poll entry of fd awaits the socket to be writable
AwaitsPollOut(p, fd) == \E k \in 2..Len(p) : p[k].fd = fd /\ POLLOUT \in p[k].events

\* C22: a receive() that returns -1 marks the connection for the sweep, and
\* the sweep has closed and erased every marked connection when poll() is
\* called again; a transfer() that returns -1 takes POLLOUT out of the
\* connection's poll entry and changes nothing else: the connection stays
\* in the registry with its queue and its name, unmarked; a connection is
\* marked only by a receive() that returns -1, and erased only when marked.
C22_FailedReadKillsFailedWriteDoesNot ==
    [][/\ \A fd \in DOMAIN clientServices :
            /\ ReceiveFails(fd) => fd \in killedService'
            /\ (fd \in killedService' /\ fd \notin killedService) => ReceiveFails(fd)
            /\ Removed(fd) => fd \in killedService
            /\ TransferFails(fd) =>
                  /\ ~AwaitsPollOut(polls', fd)
                  /\ clientServices' = clientServices
                  /\ clientNameSet' = clientNameSet
                  /\ killedService' = killedService
                  /\ fd \in DOMAIN socks'
                  /\ closes' = closes
                  /\ pc' = "loop"
       /\ (pc # "poll" /\ pc' = "poll") =>
             \A fd \in killedService :
                /\ fd \notin DOMAIN clientServices'
                /\ fd \notin DOMAIN socks'
                /\ ~\E k \in 2..Len(polls') : polls'[k].fd = fd
       /\ (pc # "poll" /\ pc' # "poll") => killedService \subseteq killedService'
      ]_vars

\* the case of C22: after a transfer() that failed, a registered connection
\* whose peer is still there is at the loop boundary with its queue and its
\* name, and its poll entry no longer awaits POLLOUT
C22_QueueLeftAfterFailedTransfer ==
    /\ pc = "poll"
    /\ \E fd \in Registered :
         /\ clientServices[fd].outputBuffers # <<>>
         /\ ~AwaitsPollOut(polls, fd)
         /\ socks[fd].peer = "open"
         /\ clientServices[fd].clientName \in clientNameSet
         /\ wres[clientServices[fd].cid] \ {"partial", "EWOULDBLOCK"} # {}

(***************************************************************************)
(* Properties of the ends of a connection.                                 *)
(***************************************************************************)
\* in this step fd is marked for the sweep
Marked(fd) == fd \in killedService' /\ fd \notin killedService

\* read() on fd returns 0: the peer has closed and nothing is in flight
PeerClosed(fd) == socks[fd].peer = "closed" /\ socks[fd].inbuf = <<>>

\* read() on fd fails with an error other than EWOULDBLOCK
ReadError(fd) == socks[fd].peer = "reset"

\* in this step a name is handed over that is in the taken names
DuplicateName(fd) ==
    /\ NameFilled(fd)
    /\ clientServices'[fd].handler.clientName \in clientNameSet

\* in this step a name length of 64 or more, or of 0 or less, or a packet
\* length of 0 or less is handed over
BadLength(fd) ==
    LET n == BytesInt(LastFilled(clientServices[fd].cid).win)
    IN  \/ NameLengthFilled(fd) /\ (n >= NameLimit \/ n <= 0)
        \/ PacketLengthFilled(fd) /\ n <= 0

\* in this step a window is handed over that keeps to the protocol: a name
\* length between 1 and 63, a name that is not taken, a packet length above
\* 0, a chat or a command
GoodWindow(fd) ==
    LET win == LastFilled(clientServices[fd].cid).win
    IN  \/ NameLengthFilled(fd) /\ BytesInt(win) > 0 /\ BytesInt(win) < NameLimit
        \/ NameFilled(fd) /\ clientServices'[fd].handler.clientName \notin clientNameSet
        \/ PacketLengthFilled(fd) /\ BytesInt(win) > 0
        \/ PacketFilled(fd) /\ (WellFormed(win, 0) \/ WellFormed(win, 1))

\* C23: a connection leaves the registry only when it is marked for the
\* sweep, and it is marked only in receive(), when the peer has closed, the
\* read fails, the packet handed over is neither a chat nor a command, the
\* name handed over is taken, or the length handed over is one the handler
\* refuses; a window that keeps to the protocol never marks it, and neither
\* does any step of send() or transfer(), whatever write() returns.
C23_RemovedOnlyForCause ==
    [][\A fd \in DOMAIN clientServices :
          /\ Removed(fd) => fd \in killedService
          /\ Marked(fd) =>
                /\ AtReadyEntry
                /\ PollAt(idx).fd = fd
                /\ POLLIN \in PollAt(idx).revents
                /\ \/ PeerClosed(fd)
                   \/ ReadError(fd)
                   \/ PacketFilled(fd) /\ Malformed(LastFilled(clientServices[fd].cid).win)
                   \/ DuplicateName(fd)
                   \/ BadLength(fd)
          /\ GoodWindow(fd) => ~Marked(fd)
          /\ pc \in {"send", "xfer"} => ~Marked(fd)]_vars

\* the case of C23: a registered connection whose peer is there has had a
\* write() fail, has sent a chat since, and is at the loop boundary beside
\* the poll entry of nobody else: the other connection has been removed
C23_SurvivorAfterWriteError ==
    /\ pc = "poll"
    /\ ncid = 2
    /\ Cardinality(DOMAIN clientServices) = 1
    /\ \E fd \in Registered :
         LET c == clientServices[fd].cid
         IN  /\ socks[fd].peer = "open"
             /\ wres[c] \ {"partial", "EWOULDBLOCK"} # {}
             /\ \E i \in 1..Len(filled[c]) :
                  filled[c][i].st = stPacketData /\ WellFormed(filled[c][i].win, 0)

(***************************************************************************)
(* Properties of the buffer streams.                                       *)
(***************************************************************************)
\* C24: every integer and every string read back from a buffer is the one
\* that was written, strings with NUL bytes and the empty string included,
\* and each read takes exactly as many bytes as the write of the value made.
C24_ReadGivesWhatWasWritten ==
    \A i \in 1..Len(codec.got) :
       /\ codec.got[i].ok
       /\ codec.got[i].value = codec.wrote[i].value
       /\ codec.used[i] = codec.made[i]

\* the case of C24: a string with a NUL byte in front of another byte has
\* been written and read back, and an integer behind it
C24_NulStringReadBack ==
    /\ Len(codec.got) = 2
    /\ codec.wrote[1].kind = "string"
    /\ codec.wrote[1].value = <<0, 97>>
    /\ codec.got[2].kind = "int"

(***************************************************************************)
(* Properties of the names.                                                *)
(***************************************************************************)
\* the name bytes handed to bufferFilled() for connection c, if any
NameBytes(c) == IF Len(filled[c]) >= 2 THEN {filled[c][2].win} ELSE {}

\* C25: every name in the taken names is not empty, shorter than 64 bytes,
\* and is byte for byte the name some client sent in its handshake, NUL
\* bytes included.
C25_TakenNamesAreSentNames ==
    \A name \in clientNameSet :
       /\ name # <<>>
       /\ Len(name) < NameLimit
       /\ \E c \in 1..ncid : name \in NameBytes(c)

\* the case of C25: a client has sent a name whose first byte is NUL, and
\* its handshake has been taken
C25_NulNameTaken ==
    \E c \in 1..ncid :
       /\ NameBytes(c) = {<<0>>}
       /\ Len(sent[c]) >= 1
       /\ sent[c][1].text[1] = TxtWelcome

(***************************************************************************)
(* Properties of the terminated session.                                   *)
(***************************************************************************)
\* the session of fd is terminated
Terminated(fd) == clientServices[fd].handler.status = stTerminated

\* C26: a terminated session stays terminated until its control block is
\* erased, and next() announces a window of size 0 for it all along; any
\* further bufferFilled() would leave it terminated and send nothing; the
\* session is terminated in receive(), which marks the connection for the
\* sweep in that step, and no terminated session is left when poll() is
\* called again.
C26_TerminatedIsAbsorbing ==
    /\ [][\A fd \in DOMAIN clientServices :
            /\ Terminated(fd) =>
                  \/ Removed(fd)
                  \/ /\ clientServices'[fd].handler.status = stTerminated
                     /\ NextSize(clientServices'[fd].handler) = 0
            /\ (~Terminated(fd) /\ ~Removed(fd)
                /\ clientServices'[fd].handler.status = stTerminated) =>
                  /\ AtReadyEntry
                  /\ PollAt(idx).fd = fd
                  /\ fd \in killedService']_vars
    /\ [](\A fd \in DOMAIN clientServices :
            Terminated(fd) =>
               /\ pc # "poll"
               /\ fd \in killedService
               /\ NextSize(clientServices[fd].handler) = 0
               /\ \A over \in OverRead :
                    LET out == BufferFilled(clientServices, fd, over)
                    IN  /\ out.handler.status = stTerminated
                        /\ NextSize(out.handler) = 0
                        /\ out.sends = <<>>
                        /\ out.names = clientNameSet)

\* the case of C26: the sweep stands at the entry of one connection while
\* the terminated session of another one waits for it
C26_TerminatedAwaitsSweep ==
    /\ pc = "sweep"
    /\ idx < Len(polls)
    /\ \E fd \in DOMAIN clientServices :
         /\ Terminated(fd)
         /\ PollAt(idx).fd # fd
         /\ \E k \in (idx + 2)..Len(polls) : polls[k].fd = fd

(***************************************************************************)
(* Properties of the messages on the wire.                                 *)
(***************************************************************************)
\* the layout of a message: the id 0, the length of the text, the text
Frame(text) == IntBytes(0) \o IntBytes(Len(text)) \o text

\* the bytes written to the socket of connection c
WireBytes(c) == [j \in 1..Len(wire[c]) |-> wire[c][j].b]

\* the messages sent to connection c in their layout, one behind the other
FramesFor(c) == Flatten([i \in 1..Len(sent[c]) |-> Frame(sent[c][i].text)])

\* C27: a byte of a message that reaches a socket is the byte at its place
\* in the layout (id 0, length of the text, text) of that message; and as
\* long as no write() on the socket has failed other than with EWOULDBLOCK,
\* the bytes on the wire are the messages in that layout one behind the
\* other, with nothing in front of them or between them.
C27_MessagesAreIdLengthText ==
    \A c \in 1..ncid :
       /\ \A j \in 1..Len(wire[c]) :
            wire[c][j].m # 0 =>
               \E i \in 1..Len(sent[c]) :
                  /\ sent[c][i].ser = wire[c][j].m
                  /\ wire[c][j].k < Len(Frame(sent[c][i].text))
                  /\ wire[c][j].b = Frame(sent[c][i].text)[wire[c][j].k + 1]
       /\ NoWriteError(c) =>
            /\ IsPrefix(WireBytes(c), FramesFor(c))
            /\ pc = "poll" => WireBytes(c) = FramesFor(c)

\* the case of C27: two messages have reached a client whole, one of them
\* in two writes
C27_TwoMessagesOnWire ==
    /\ pc = "poll"
    /\ \E c \in 1..ncid :
         /\ Len(sent[c]) >= 2
         /\ wres[c] = {"partial", "EWOULDBLOCK"}
         /\ Len(wire[c]) = Len(FramesFor(c))
         /\ Len(wire[c]) > 2 * 2 * IntSize

(***************************************************************************)
(* Properties of nextSend() and transfer().                                *)
(***************************************************************************)
\* in this step nextSend() on fd, entered with an empty queue, stops writing
\* and keeps the rest
ResidueKept(fd) ==
    /\ pc = "send"
    /\ pending # <<>>
    /\ Head(pending).fd = fd
    /\ Head(pending).ser # 0
    /\ clientServices[fd].outputBuffers = <<>>
    /\ clientServices'[fd].outputBuffers # <<>>

\* the bytes transfer() will write for the head chunk of a control block:
\* those from writePointer up to the size recorded for the chunk
Designated(svc, junk) ==
    ChunkBytes(Head(svc.outputBuffers), svc.writePointer,
               Head(svc.outputSizes) - svc.writePointer, junk)

\* C28: when nextSend(), entered with an empty queue, stops after k of the
\* n bytes of its buffer, the chunk it pushes and writePointer designate the
\* bytes k..n-1 of the buffer and no others, POLLOUT is awaited for the
\* connection, and transfer() writes no byte that is not a byte of a message.
C28_ResidueIsTheUnsentBytes ==
    [][\A fd \in DOMAIN clientServices :
          /\ ResidueKept(fd) =>
                LET buffer == TaggedBuffer(Head(pending).ser, Head(pending).text)
                    k == Head(pending).dataSent
                IN  /\ k < Len(buffer)
                    /\ Len(clientServices'[fd].outputBuffers) = 1
                    /\ \A junk \in JunkBytes :
                         Designated(clientServices'[fd], junk)
                           = SubSeq(buffer, k + 1, Len(buffer))
                    /\ AwaitsPollOut(polls', fd)
          /\ pc = "xfer" =>
                \A j \in (Len(wire[clientServices[fd].cid]) + 1)
                            ..Len(wire'[clientServices[fd].cid]) :
                   wire'[clientServices[fd].cid][j].m # 0]_vars

\* the case of C28: nextSend() has stopped after a partial write and kept
\* the rest, which waits for transfer()
C28_ResidueAfterPartialWrite ==
    \E fd \in DOMAIN clientServices :
       /\ Len(clientServices[fd].outputBuffers) = 1
       /\ clientServices[fd].writePointer = SockBuf
       /\ Len(Head(clientServices[fd].outputBuffers))
            = Head(clientServices[fd].outputSizes) - SockBuf
       /\ AwaitsPollOut(polls, fd)

\* transfer() is running on fd
TransferCalled(fd) ==
    /\ pc = "xfer"
    /\ PollAt(idx).fd = fd
    /\ POLLOUT \in PollAt(idx).revents

\* in this step the write() of transfer() on fd reports EWOULDBLOCK
TransferWouldBlock(fd) ==
    /\ TransferCalled(fd)
    /\ clientServices[fd].outputBuffers # <<>>
    /\ clientServices[fd].writePointer < Head(clientServices[fd].outputSizes)
    /\ socks[fd].peer # "reset"
    /\ socks[fd].slow
    /\ socks[fd].room = 0
    /\ budget' = budget

\* the bytes the step puts on the wire of connection c
NewOnWire(c) == SubSeq(wire'[c], Len(wire[c]) + 1, Len(wire'[c]))

\* C29: transfer() writes bytes of the head chunk only, from writePointer
\* on; when write() reports EWOULDBLOCK it returns with the queue,
\* writePointer and the awaited POLLOUT as they are; on another error it
\* returns without popping; and when it returns 0 POLLOUT is awaited if and
\* only if the queue is not empty.
C29_TransferWritesHeadSlice ==
    [][\A fd \in DOMAIN clientServices :
          LET svc == clientServices[fd]
              new == NewOnWire(svc.cid)
          IN  TransferCalled(fd) =>
                /\ new # <<>> =>
                      /\ svc.outputBuffers # <<>>
                      /\ svc.writePointer + Len(new) <= Len(Head(svc.outputBuffers))
                      /\ new = SubSeq(Head(svc.outputBuffers), svc.writePointer + 1,
                                      svc.writePointer + Len(new))
                /\ TransferWouldBlock(fd) =>
                      /\ clientServices' = clientServices
                      /\ polls' = polls
                      /\ AwaitsPollOut(polls', fd)
                      /\ pc' = "loop"
                /\ TransferFails(fd) =>
                      /\ clientServices' = clientServices
                      /\ pc' = "loop"
                /\ (pc' = "loop" /\ ~TransferFails(fd)) =>
                      (AwaitsPollOut(polls', fd)
                         <=> clientServices'[fd].outputBuffers # <<>>)
                /\ pc' = "xfer" => polls' = polls]_vars

\* the case of C29: transfer() has written a byte that lies behind the end
\* of the head chunk
C29_ByteBehindChunkWritten ==
    \E c \in 1..ncid : \E j \in 1..Len(wire[c]) : wire[c][j].m = 0

(***************************************************************************)
(* Properties of receive().                                                *)
(***************************************************************************)
\* in this step receive() is called on fd
ReceiveCalled(fd) ==
    /\ AtReadyEntry
    /\ PollAt(idx).fd = fd
    /\ POLLIN \in PollAt(idx).revents

\* the handler but for the bytes in its two buffers
Unfilled(h) == [h EXCEPT !.dataSize = <<>>, !.dataBuffer = <<>>]

\* C30: receive() reads once, at most as many bytes as the window lacks;
\* when read() reports EWOULDBLOCK nothing changes and the connection is not
\* marked; a read that leaves the window short moves readPointer on by the
\* bytes read, puts them into the window and does nothing else; a read that
\* returns 0 or fails marks the connection without a call of
\* bufferFilled().
C30_ReceiveReadsOnce ==
    [][\A fd \in DOMAIN clientServices :
          LET svc == clientServices[fd]
              c == svc.cid
              lacks == NextSize(svc.handler) - svc.readPointer
              k == Len(rcvd'[c]) - Len(rcvd[c])
          IN  ReceiveCalled(fd) =>
                /\ k >= 0 /\ k <= lacks
                /\ k > 0 =>
                      /\ socks[fd].inbuf = SubSeq(rcvd'[c], Len(rcvd[c]) + 1, Len(rcvd'[c]))
                                             \o socks'[fd].inbuf
                      /\ Len(filled'[c]) <= Len(filled[c]) + 1
                /\ (~ReadFails(fd) /\ socks[fd].inbuf = <<>>) =>
                      /\ clientServices' = clientServices
                      /\ clientNameSet' = clientNameSet
                      /\ killedService' = killedService
                      /\ pending' = pending
                      /\ socks' = socks
                      /\ UNCHANGED <<ncid, nsend, wire, sent, closes, rcvd, filled,
                                     lastCast, wres>>
                /\ (k > 0 /\ k < lacks) =>
                      /\ clientServices'[fd].readPointer = svc.readPointer + k
                      /\ Unfilled(clientServices'[fd].handler) = Unfilled(svc.handler)
                      /\ [clientServices'[fd] EXCEPT !.readPointer = 0,
                                                     !.handler = NewHandler]
                           = [svc EXCEPT !.readPointer = 0, !.handler = NewHandler]
                      /\ OthersKept(fd)
                      /\ clientNameSet' = clientNameSet
                      /\ killedService' = killedService
                      /\ pending' = <<>>
                      /\ filled' = filled
                      /\ lastCast' = lastCast
                /\ ReadFails(fd) =>
                      /\ fd \in killedService'
                      /\ k = 0
                      /\ filled' = filled
                      /\ clientServices' = clientServices
                      /\ clientNameSet' = clientNameSet
                      /\ pending' = <<>>]_vars

\* the case of C30: receive() has returned from a read that reported
\* EWOULDBLOCK, on a connection whose client has sent nothing yet
C30_IdleAfterWouldBlock ==
    /\ pc = "xfer"
    /\ POLLIN \in PollAt(idx).revents
    /\ LET fd == PollAt(idx).fd
       IN  /\ socks[fd].said = 0
           /\ socks[fd].peer = "open"
           /\ fd \notin killedService
           /\ clientServices[fd].handler.status = stNameSize
           /\ clientServices[fd].readPointer = 0

(***************************************************************************)
(* Properties of the poll array.                                           *)
(***************************************************************************)
\* the descriptors of the entries behind the listen socket's
EntryFds == {polls[k].fd : k \in 2..Len(polls)}

\* the send() in progress has set POLLOUT
PollOutSet == pc = "send" /\ polls' # polls

(* C31: the poll array mirrors the registry: it has one entry more than    *)
(* the registry has control blocks, entry 0 is the listen socket, the      *)
(* other entries hold the registry's keys, each once, and each control     *)
(* block stores the index of its own entry; a nextSend that sets POLLOUT,  *)
(* also one made for a leave announcement during the removal of the killed *)
(* entries, sets it in the entry of the connection it writes to and        *)
(* changes nothing else of the array.                                      *)
C31_PollsMirrorRegistry ==
    /\ [](/\ Len(polls) = Cardinality(DOMAIN clientServices) + 1
          /\ polls[1].fd = ListenFd
          /\ EntryFds = DOMAIN clientServices
          /\ Cardinality(EntryFds) = Len(polls) - 1
          /\ \A fd \in DOMAIN clientServices :
               /\ clientServices[fd].pollIndex \in 1..(Len(polls) - 1)
               /\ PollAt(clientServices[fd].pollIndex).fd = fd)
    /\ [][PollOutSet =>
            \E k \in 2..Len(polls) :
               /\ polls[k].fd = Head(pending).fd
               /\ polls' = [polls EXCEPT ![k].events = @ \cup {POLLOUT}]]_vars

\* the second connection's entry was moved to the place of the first one's,
\* with the POLLOUT that the first one's leave announcement has set
C31_MovedEntryAwaitsPollOut ==
    /\ pc = "poll"
    /\ \E fd \in DOMAIN clientServices :
         /\ clientServices[fd].cid = 2
         /\ clientServices[fd].pollIndex = 1
         /\ PollAt(1).fd = fd
         /\ POLLOUT \in PollAt(1).events
         /\ Len(clientServices[fd].outputBuffers) = 1
         /\ sent[2] # <<>>
         /\ sent[2][Len(sent[2])].text = LeaveText(<<97>>, 1)

(***************************************************************************)
(* Properties of one iteration of the server loop.                         *)
(***************************************************************************)
\* no element of the sequence occurs twice
NoRepeat(seq) == \A i, j \in 1..Len(seq) : i # j => seq[i] # seq[j]

(* C32: within one iteration of the server loop receive() is called at     *)
(* most once and transfer() at most once for each connection, and at most  *)
(* one connection is accepted: sockets are only accepted in the step that  *)
(* follows poll(), one at a time.                                          *)
C32_ServedOncePerIteration ==
    /\ [](/\ tally.accepted <= 1
          /\ NoRepeat(tally.received)
          /\ NoRepeat(tally.transferred))
    /\ [][/\ ncid' <= ncid + 1
          /\ ncid' # ncid => pc = "poll" /\ tally'.accepted = 1]_vars

\* an iteration that has accepted a connection and has called both
\* receive() and transfer() for another one
C32_AcceptedAndServed ==
    /\ tally.accepted = 1
    /\ Len(tally.received) = 1
    /\ tally.transferred = tally.received

(***************************************************************************)
(* Properties of the accept block.                                         *)
(***************************************************************************)
\* the step is one in which fcntl() fails on the socket accept() gave
FcntlFails == budget'.fcntlErrors < budget.fcntlErrors

\* the step is one in which accept() fails
AcceptFails == budget'.acceptErrors < budget.acceptErrors

\* the step adds nothing to the registry, the poll array and the open
\* sockets, and the loop over the poll entries follows
NothingAdded ==
    /\ clientServices' = clientServices
    /\ Len(polls') = Len(polls)
    /\ \A k \in 1..Len(polls) :
         polls'[k].fd = polls[k].fd /\ polls'[k].events = polls[k].events
    /\ DOMAIN socks' = DOMAIN socks
    /\ clientNameSet' = clientNameSet
    /\ pc' = "loop"

(* C33: a socket that accept() gave and that cannot be made non-blocking   *)
(* is closed, once, and gets no control block, no poll entry and no        *)
(* handler, and the server loop goes on; when accept() itself fails no     *)
(* socket is closed and nothing is added.                                  *)
C33_UnservedSocketDiscarded ==
    [][/\ FcntlFails =>
            /\ NothingAdded
            /\ ncid' = ncid + 1
            /\ closes' = Append(closes, 1)
            /\ filled' = Append(filled, <<>>)
       /\ AcceptFails =>
            /\ NothingAdded
            /\ ncid' = ncid
            /\ closes' = closes]_vars

\* the first socket was discarded, an accept() has failed, and a connection
\* accepted later has registered its name
C33_ServedAfterDiscarded ==
    /\ budget.fcntlErrors = 0
    /\ budget.acceptErrors = 0
    /\ ncid >= 2
    /\ closes[1] = 1
    /\ rcvd[1] = <<>>
    /\ sent[1] = <<>>
    /\ \E fd \in DOMAIN clientServices :
         /\ clientServices[fd].cid > 1
         /\ clientServices[fd].handler.hasJoinedServer

(***************************************************************************)
(* Properties of the write interest.                                       *)
(***************************************************************************)
\* poll() will wait for the connection's socket to be writable
WantsWrite(fd) == POLLOUT \in PollAt(clientServices[fd].pollIndex).events

(* C34: when the server loop calls poll(), a connection's entry asks for   *)
(* POLLOUT only if the connection's queue of chunks is not empty.          *)
C34_WriteInterestOnlyWithQueue ==
    pc = "poll" =>
        \A fd \in DOMAIN clientServices :
            WantsWrite(fd) => clientServices[fd].outputBuffers # <<>>

\* the server loop is about to call poll(); the first connection was erased
\* and the entry of the second one, which has a queue and asks for POLLOUT,
\* was copied to its place
C34_CopiedEntryWantsWrite ==
    /\ pc = "poll"
    /\ ncid = 2
    /\ closes[1] = 1
    /\ \E fd \in DOMAIN clientServices :
         /\ clientServices[fd].cid = 2
         /\ PollAt(1).fd = fd
         /\ WantsWrite(fd)
         /\ clientServices[fd].outputBuffers # <<>>

(***************************************************************************)
(* Properties of the teardown of a connection without a name.              *)
(***************************************************************************)
\* userOnline() has never returned true for the connection's handler
Nameless(fd) == ~clientServices[fd].handler.hasJoinedServer

(* C35: the teardown of a connection that has not registered a name (it    *)
(* went away during the handshake, sent a name length that is refused, or  *)
(* asked for a name that is taken) leaves the taken names as they are and  *)
(* makes no send() and no broadcast() call: the control block is removed   *)
(* in the same step and the other control blocks keep their queues.        *)
C35_NamelessTeardownIsSilent ==
    [][\A fd \in DOMAIN clientServices :
          Destroyed(fd) /\ Nameless(fd) =>
            /\ Removed(fd)
            /\ clientNameSet' = clientNameSet
            /\ sent' = sent
            /\ nsend' = nsend
            /\ pending' = <<>>
            /\ lastCast' = lastCast
            /\ OthersKept(fd)]_vars

\* the second connection asked for the name of the first, was refused and
\* is erased; the first is registered and its name is taken
C35_OwnerKeepsNameAfterRefusal ==
    /\ pc = "poll"
    /\ ncid = 2
    /\ closes[2] = 1
    /\ Len(sent[2]) = 1
    /\ sent[2][1].text = SorryText(<<97>>)
    /\ <<97>> \in clientNameSet
    /\ \E fd \in Registered :
         clientServices[fd].cid = 1 /\ clientServices[fd].clientName = <<97>>

(***************************************************************************)
(* Properties of the requests on the shared pipe.                          *)
(***************************************************************************)
\* the request of child c the parent's k-th request stands for, if the pipe
\* is read as it was written: as many requests of c were read before it
Turn(k) ==
    Cardinality({i \in 1..k : fork.parsed[i].cid = fork.parsed[k].cid})

\* C36: the requests of the children are contiguous on the shared pipe:
\* every request the parent reads is a request of the child whose
\* connection id it starts with, with that child's request id and, once
\* the parent has read it, that child's payload
C36_RequestsContiguous ==
    \A k \in 1..Len(fork.parsed) :
       LET r == fork.parsed[k]
       IN  /\ r.cid # 0
           /\ Turn(k) <= Len(fork.issued[r.cid])
           /\ fork.issued[r.cid][Turn(k)].id = r.id
           /\ r.done => /\ fork.issued[r.cid][Turn(k)].text = r.text
                        /\ fork.issued[r.cid][Turn(k)].muted = r.muted

\* two children were in beforeRequest at once: the parent has read the
\* connection id of the first child and, as its request id, the connection
\* id of the second
C36_HeadersInterleaved ==
    /\ Len(fork.socks) = 2
    /\ \E k \in 1..Len(fork.parsed) :
          /\ fork.parsed[k].cid = 1
          /\ fork.parsed[k].id = fork.socks[2].fd

(***************************************************************************)
(* Properties of the broadcasts of the fork server.                        *)
(***************************************************************************)
\* the descriptors the broadcast of the poll server writes to, in a
\* registry whose connections have the names of names
PollTargets(names, muted) ==
    SelectSeq(SortedFds(DOMAIN names),
              LAMBDA fd : BroadcastReaches([clientName |-> names[fd]], muted))

\* every read() so far has filled its window
CompleteWindows ==
    \A c \in 1..Len(fork.filled) :
       \A i \in 1..Len(fork.filled[c]) :
          fork.filled[c][i].got = fork.filled[c][i].size

\* C37: when every read returns a complete window, a broadcast of the fork
\* server is written to the connections the poll server writes it to: the
\* connections that have a name which is not muted; a connection that has
\* not completed the handshake is not written to
C37_SameRecipients ==
    CompleteWindows =>
       \A k \in 1..Len(fork.casts) :
          fork.casts[k].targets
             = PollTargets(fork.casts[k].names, fork.casts[k].muted)

\* the first client has joined while the second was connected and had not
\* sent its name; the requests were read as they were written, and the
\* announcement of the join was written to the second client's socket
C37_UnjoinedReached ==
    /\ CompleteWindows
    /\ C36_RequestsContiguous
    /\ Len(fork.children) = 2
    /\ fork.socks[2].said = 0
    /\ fork.children[1].handler.hasJoinedServer
    /\ Len(fork.casts) = 1
    /\ fork.casts[1].text = JoinText(fork.children[1].handler.clientName, 1)
    /\ fork.wire[2] # <<>>
    /\ \A i \in 1..Len(fork.wire[2]) : fork.wire[2][i].w = "parent"

(***************************************************************************)
(* Properties of the progress of the requests.                             *)
(***************************************************************************)
\* child c holds pipeMutex and its write to the shared pipe blocks
BlockedOnPipe(c) ==
    /\ fork.children[c].pc = "body"
    /\ fork.children[c].parts # <<>>
    /\ PipeFilled(fork.pipe, fork.children[c].parts).pipe = fork.pipe

\* the parent waits for pipeSemaphore: it is in accept() or about to call
\* it, and the semaphore is 0
ParentWaits ==
    fork.pc \in {"accept", "trywait"} /\ ~SemOpen(fork.pipeSemaphore)

\* C38: no state is reachable in which a child is blocked writing to the
\* pipe while it holds pipeMutex and the parent waits for pipeSemaphore
C38_NoWriterBlockedUnderMutex ==
    \A c \in 1..Len(fork.children) : ~(BlockedOnPipe(c) /\ ParentWaits)

\* one client alone: it has joined and sent a chat text longer than the
\* pipe; its child has filled the pipe with the start of the broadcast
\* request and holds pipeMutex, the parent is in accept() with no signal
\* pending
C38_LongChatFillsPipe ==
    /\ Len(fork.children) = 1
    /\ fork.budget.accepts = ForkAccepts - 1
    /\ BlockedOnPipe(1)
    /\ Len(fork.pipe) = PipeCap
    /\ Head(fork.children[1].todo).text = ChatText(ForkName, LongText)
    /\ fork.pipeMutex = 0
    /\ fork.pc = "accept"
    /\ ~fork.sig

(***************************************************************************)
(* Properties of the child's read loop.                                    *)
(***************************************************************************)
\* C39: bufferFilled() is called only when read() has given all the bytes
\* of the window next() announced
C39_FilledAfterWholeWindow ==
    \A c \in 1..Len(fork.filled) :
       \A i \in 1..Len(fork.filled[c]) :
          fork.filled[c][i].got = fork.filled[c][i].size

\* the first read() of a connection gave one byte of the four of the name
\* length, and bufferFilled() was called: the handler waits for the name
C39_NameLengthCutShort ==
    /\ Len(fork.filled) >= 1
    /\ Len(fork.filled[1]) = 1
    /\ fork.filled[1][1] = [size |-> IntSize, got |-> 1]
    /\ fork.children[1].handler.status = stNameBuffer
    /\ fork.socks[1].inbuf = Slice(NameFrame(ForkName), 2, IntSize + 1)

(***************************************************************************)
(* Properties of the records on a client socket.                           *)
(***************************************************************************)
\* someone is between socketMutex.wait() and socketMutex.post() for the
\* socket of connection c
InSection(c) ==
    \/ fork.children[c].pc = "swrite"
    \/ /\ fork.pc = "cwrite"
       /\ fork.clientHandlers[Head(fork.targets)].cid = c

\* C40: the records written to a client socket by its child and by the
\* parent do not interleave: every write of a record is made with
\* socketMutex held, the writes of a record follow each other, and
\* socketMutex is free again when the record is written
C40_RecordsDoNotInterleave ==
    \A c \in 1..Len(fork.wire) :
       /\ fork.control[c].socketMutex \in {0, 1}
       /\ fork.control[c].socketMutex = 0 <=> InSection(c)
       /\ \A i \in 1..Len(fork.wire[c]) :
             LET x == fork.wire[c][i]
             IN  /\ x.m = 0
                 /\ i = 1 => x.k = 1
                 /\ i > 1 =>
                       LET p == fork.wire[c][i - 1]
                       IN  IF p.last THEN x.k = 1
                           ELSE x.w = p.w /\ x.text = p.text /\ x.k = p.k + 1

\* the parent is in the middle of a record for the socket of the first
\* connection while that connection's child waits in send() for
\* socketMutex
C40_ChildWaitsForParent ==
    /\ Len(fork.children) = 2
    /\ fork.children[1].pc = "slock"
    /\ fork.pc = "cwrite"
    /\ fork.clientHandlers[Head(fork.targets)].cid = 1
    /\ Len(fork.parts) = 1
    /\ fork.wire[1] # <<>>
    /\ fork.wire[1][Len(fork.wire[1])].w = "parent"
    /\ ~fork.wire[1][Len(fork.wire[1])].last

====
